---- MODULE Spec2Model ----
(***************************************************************************)
(* jaysonic: a JSON-RPC 2.0 client (src/client/index.js, src/client/tcp.js *)
(* and the WebSocket client) talking to the TCP server (Server core and    *)
(* TCPServer) over a pair of byte streams.                                 *)
(*                                                                         *)
(* A JSON text is a record [k, items]: k = "obj" is the text of one object *)
(* (items = <<object>>), k = "arr" the text of an array of objects,        *)
(* k = "text" a text that is not JSON, k = "delim" the delimiter.          *)
(* JSON.parse and JSON.stringify move between a text and its value, so a   *)
(* string and the object it encodes are different values of the model.     *)
(***************************************************************************)
EXTENDS Integers, Sequences, FiniteSets, TLC

\* ------------------------------------------------------------ bounds
MaxId == 2          \* ids one client allocates
MaxCalls == 2       \* send() calls
MaxNotes == 1       \* notification frames one client builds or sends
MaxBatches == 2     \* batch() calls
MaxBatchLen == 2    \* frames in one batch() call
MaxRead == 2        \* stream tokens one data event carries
MaxWire == 4        \* tokens in flight in one direction
MaxRaw == 2         \* frames written through a plain socket
MaxSubs == 2        \* subscribe, unsubscribe and unsubscribeAll calls
MaxListens == 3     \* listen() calls on one server
MaxHttp == 3        \* notify() calls of the HTTP client
MaxCloses == 2      \* close() calls on one server
MaxConns == 2       \* connections a listening server accepts
MaxSent == 2        \* messages written to the byte streams
MaxNotify == 2      \* notify() calls of the TCP server
Retries == 2        \* options.retries of the client
MaxFails == 4       \* connection attempts that are refused

\* ------------------------------------------------------------ values
Absent == 0         \* a member that is not there (undefined)
Null == 0 - 1       \* JSON null

ParseErrorCode == 0 - 32700
InvalidRequestCode == 0 - 32600
MethodNotFoundCode == 0 - 32601
InvalidParamsCode == 0 - 32602
InternalErrorCode == 0 - 32603
TimeoutCode == 0 - 32000

Version == "2.0"
NonString == "<number>"      \* a method member that is not a string

Ids == 1..MaxId
Transports == {"tcp", "ws"}
\* methods send() is called with: "add" returns a value, "slow" returns a
\* promise that is fulfilled later, "nope" is not registered
CallMethods == {"add", "slow", "nope"}
\* methods message() builds request frames for, and notification frames for
FrameMethods == {"add", "nope"}
NoteMethods == {"ping"}
\* methods onNotify() registers a callback for
CbMethods == {"ping", "pong"}

\* event names subscribe() is called with, and the callbacks passed to it
EventNames == {"batchResponse", "notify", "tick", "response", "messageError"}
\* the listeners handleResponse() and handleError() register
InternalListeners == [e \in EventNames |->
                        IF e = "response" THEN <<"handleResponse">>
                        ELSE IF e = "messageError" THEN <<"handleError">>
                        ELSE <<>>]
Callbacks == {"cb1", "cb2"}

\* server.method(name, cb): the method table after set-up, each handler by
\* what it does when called: returns a value, a falsy value or undefined,
\* throws a TypeError or another Error, returns a promise that is fulfilled
\* or one that is rejected with an Error
methods == [add |-> "value", slow |-> "deferred", greeting |-> "value",
            zero |-> "falsy", void |-> "undefined", typeerror |-> "typeerror",
            throws |-> "throws", promisereject |-> "rejects"]
\* the message of the Error a failing handler throws or rejects with
FailureText == "broke"

Obj(jsonrpc, method, params, id, result, code, emsg) ==
    [jsonrpc |-> jsonrpc, method |-> method, params |-> params, id |-> id,
     result |-> result, code |-> code, emsg |-> emsg]

\* the object {} (also what JSON.stringify makes of an Error instance)
EmptyObj == Obj("", "", "absent", Absent, "", 0, "")

RequestObj(method, params, id) == Obj(Version, method, params, id, "", 0, "")
ResponseObj(jsonrpc, result, id) == Obj(jsonrpc, "", "absent", id, result, 0, "")
ErrorObj(jsonrpc, code, emsg, id) == Obj(jsonrpc, "", "absent", id, "", code, emsg)

\* `!message.id`
Falsy(id) == id = Absent \/ id = Null

\* JSON texts
TextOf(o) == [k |-> "obj", items |-> <<o>>]
TextOfArray(s) == [k |-> "arr", items |-> s]
Garbage == [k |-> "text", items |-> <<>>]
Delim == [k |-> "delim", items |-> <<>>]
EmptyText == [k |-> "empty", items |-> <<>>]
\* what a rejection carries when it is an exception, not a JSON-RPC object
Exception == [k |-> "exn", items |-> <<>>]

Parses(text) == text.k \in {"obj", "arr"}

\* new Promise((resolve, reject) => ...): key is the request id of a send()
\* (as a one-element sequence) or the id list of a batch(); str = TRUE when
\* the settled value is a string holding the JSON text, FALSE when it is the
\* parsed value; by records which code path settled it
NewPromise(key) ==
    [key |-> key, st |-> "pending", str |-> FALSE, val |-> EmptyText, by |-> ""]

\* resolve(v) / reject(v) of promise i of ps: a settled promise stays as it is
Settle(ps, i, st, str, val, by) ==
    IF ps[i].st = "pending"
    THEN [ps EXCEPT ![i] = [key |-> ps[i].key, st |-> st, str |-> str,
                            val |-> val, by |-> by]]
    ELSE ps

\* obj[key] = v and delete obj[key] on a JavaScript object used as a map
Put(f, key, v) == [x \in DOMAIN f \cup {key} |-> IF x = key THEN v ELSE f[x]]
Delete(f, key) == [x \in DOMAIN f \ {key} |-> f[x]]

RECURSIVE Split(_)
\* String.prototype.split(delimiter): the segments between delimiters,
\* an empty segment where two delimiters (or an end) meet
Split(tokens) ==
    IF tokens = <<>> THEN <<EmptyText>>
    ELSE IF Head(tokens) = Delim THEN <<EmptyText>> \o Split(Tail(tokens))
    ELSE IF Len(tokens) = 1 THEN <<Head(tokens)>>
    ELSE IF tokens[2] = Delim THEN <<Head(tokens)>> \o Split(Tail(Tail(tokens)))
    ELSE <<Garbage>> \o Split(Tail(Tail(tokens)))

RECURSIVE TrimLeft(_)
\* String.prototype.trimLeft(): the default delimiter "\n" is white space
TrimLeft(tokens) ==
    IF tokens # <<>> /\ Head(tokens) = Delim THEN TrimLeft(Tail(tokens))
    ELSE tokens

RECURSIVE TruthyIds(_)
\* the ids of the elements that carry one, in order
TruthyIds(s) ==
    IF s = <<>> THEN <<>>
    ELSE (IF Falsy(Head(s).id) THEN <<>> ELSE <<Head(s).id>>) \o TruthyIds(Tail(s))

Range(s) == {s[i] : i \in DOMAIN s}

\* the receiving ends of the byte streams: two sockets of the TCP server,
\* two requests of the HTTP server (each from a client of its own) and the
\* socket of the client
TcpEnds == {"tcpA", "tcpB"}
HttpEnds == {"httpA", "httpB"}
Ends == TcpEnds \cup HttpEnds \cup {"cli"}

\* the clients that connect to the TCP server
ClientIds == {"c1", "c2"}
\* what socket.write() does on a socket that is no longer open: nothing
\* that the caller sees, an "error" event of the socket on a later tick, or
\* an exception thrown by the call (the case notify() has its try for)
WriteFailures == {"silent", "event", "throw"}

VARIABLES
    transport,          \* which client class this is
    connected,          \* this.client is an open socket
    message_id,         \* this.message_id
    serving_message_id, \* this.serving_message_id
    pendingCalls,       \* this.pendingCalls: id -> promise (index in calls)
    responseQueue,      \* this.responseQueue: id -> response
    messageBuffer,      \* this.messageBuffer of the client
    calls,              \* the promises send() returned, in call order
    built,              \* frames request().message() has returned
    notes,              \* notification frames built or sent so far
    batches,            \* the promises batch() returned, in call order
    pendingBatches,     \* this.pendingBatches: key -> promise (index in batches)
    timers,             \* every setTimeout made, in call order
    timeouts,           \* this.timeouts: key -> timer (index in timers)
    crashed,            \* an exception left an event handler uncaught
    c2s,                \* bytes written by the client, not yet read
    s2c,                \* bytes written by the server, not yet read
    srvBuffer,          \* this.messageBuffer of the server
    jobs,               \* requests whose handler result is still awaited
    notifyCbs,          \* methods an onNotify callback is registered for
    cbCalls,            \* history: callbacks invoked, with their message
    handled,            \* history: the frames the server has dispatched
    writes,             \* history: what the server wrote, and for which frame
    invoked,            \* history: the requests a registered handler was called for
    raw,                \* frames written through a plain socket so far
    listening,          \* this.listening of the server
    handle,             \* the net.Server: "closed", "binding" or "open"
    listens,            \* the promises listen() returned, in call order
    onListening,        \* listen() calls whose "listening" listener is registered
    dataHandlers,       \* "connection" listeners handleData() has registered
    lastConn,           \* history: the connections the server has accepted, and the
                        \* "connection" listeners that ran for the last of them
    closes,             \* close() calls so far
    listeners,          \* the client's EventEmitter: event name -> listeners, in order
    subs,               \* subscribe, unsubscribe and unsubscribeAll calls so far
    lastSub,            \* history: the last of those calls, and whether it threw
    httpCalls,          \* HTTP client: the notify() calls, each with its request,
                        \* the reply of the server and its promise
    streams,            \* byte streams: per receiving end, the bytes not yet read
    sent,               \* per receiving end, the messages written to its stream
    httpBuffer,         \* this.messageBuffer of the HTTP server
    requestListeners,   \* "request" listeners of the http.Server
    httpOpen,           \* per HTTP request, its "data" and "end" listener pairs
    httpEnded,          \* the HTTP requests whose "end" event has fired
    httpConns,          \* per HTTP client connection: "none", "open", "request"
                        \* (its request has arrived) or "closed"
    parsed,             \* history: the chunks the receivers dispatched, in order
    lastRead,           \* history: the last data event and what it dispatched
    link,               \* the connection of the client: "none" (this.client is
                        \* undefined), "connecting", "open", "retrying" (a
                        \* reconnect timer is armed) or "closed"
    isConnected,        \* this.connected of TCPClient
    remainingRetries,   \* this.remainingRetries
    attempts,           \* history: reconnection attempts the client has started
    fails,              \* connection attempts refused so far
    closedBy,           \* history: what closed the connection last
    ended,              \* history: end() was called, and the state it was called in
    sentClosed,         \* history: the send() calls made with no open connection
    lostPending,        \* history: the calls pending when the connection was lost
    connectedClients,   \* this.connectedClients of the TCP server
    sockets,            \* per client of the TCP server: "none", "open" or "closed"
    onDisconnect,       \* "clientDisconnected" listeners of the TCP server
    received,           \* per client, the notification frames it has received
    errorEvents,        \* history: "error" events the server has emitted
    srvDown,            \* an exception was left uncaught in the server process
    lastNotify,         \* history: the last notify() call of the server
    probe,              \* the last message handed to the validation of a server,
                        \* the version the server is configured with and the outcome
    delivered,          \* history: batch replies handed to the client whole
    issued              \* history: the ids message() has put in a frame, in order

clientVars == <<transport, connected, message_id, serving_message_id,
                pendingCalls, responseQueue, messageBuffer, calls,
                built, notes, batches, pendingBatches, timers, timeouts, crashed>>
serverVars == <<srvBuffer, jobs, notifyCbs, cbCalls, handled, writes, invoked>>
lifeVars == <<listening, handle, listens, onListening, dataHandlers, closes, lastConn>>
emitterVars == <<listeners, subs, lastSub>>
httpVars == <<httpCalls>>
frameVars == <<streams, sent, httpBuffer, requestListeners, httpOpen, httpEnded, httpConns,
               parsed, lastRead>>
netVars == <<connectedClients, sockets, onDisconnect, received, errorEvents,
             srvDown, lastNotify>>
linkVars == <<link, isConnected, remainingRetries, attempts, fails, closedBy, ended,
              sentClosed, lostPending>>
probeVars == <<probe>>
extVars == <<frameVars, netVars, linkVars, probeVars>>
auxVars == <<raw, lifeVars, emitterVars, httpVars, extVars>>
\* auxVars without the connection of the client
sideVars == <<raw, lifeVars, emitterVars, httpVars, frameVars, netVars, probeVars>>
wireVars == <<c2s, s2c, delivered, issued>>
\* the client, the TCP server and the HTTP exchange of notify()
coreVars == <<clientVars, serverVars, wireVars, raw, lifeVars, emitterVars, httpVars>>
vars == <<clientVars, serverVars, auxVars, c2s, s2c, delivered, issued>>

Init ==
    /\ transport \in Transports
    /\ connected = FALSE
    /\ message_id = 1
    /\ serving_message_id = 1
    /\ pendingCalls = [i \in {} |-> 0]
    /\ responseQueue = [i \in {} |-> EmptyObj]
    /\ messageBuffer = <<>>
    /\ calls = <<>>
    /\ built = {}
    /\ notes = 0
    /\ batches = <<>>
    /\ pendingBatches = [key \in {} |-> 0]
    /\ timers = <<>>
    /\ timeouts = [key \in {} |-> 0]
    /\ crashed = FALSE
    /\ c2s = <<>>
    /\ s2c = <<>>
    /\ srvBuffer = <<>>
    /\ jobs = {}
    /\ notifyCbs = {}
    /\ cbCalls = {}
    /\ handled = {}
    /\ writes = {}
    /\ invoked = {}
    /\ raw = 0
    /\ listening = FALSE
    /\ handle = "closed"
    /\ listens = <<>>
    /\ onListening = {}
    /\ dataHandlers = 0
    /\ lastConn = [n |-> 0, fired |-> 0]
    /\ closes = 0
    /\ listeners = InternalListeners
    /\ subs = 0
    /\ httpCalls = <<>>
    /\ streams = [e \in Ends |-> <<>>]
    /\ sent = [e \in Ends |-> 0]
    /\ httpBuffer = <<>>
    /\ requestListeners = 0
    /\ httpOpen = [e \in HttpEnds |-> 0]
    /\ httpEnded = {}
    /\ httpConns = [e \in HttpEnds |-> "none"]
    /\ parsed = <<>>
    /\ link = "none"
    /\ isConnected = FALSE
    /\ remainingRetries = Retries
    /\ attempts = 0
    /\ fails = 0
    /\ closedBy = ""
    /\ ended = [done |-> FALSE, attempts |-> 0, remaining |-> Retries]
    /\ sentClosed = {}
    /\ lostPending = {}
    /\ connectedClients = <<>>
    /\ sockets = [c \in ClientIds |-> "none"]
    /\ onDisconnect = 0
    /\ received = [c \in ClientIds |-> 0]
    /\ errorEvents = 0
    /\ srvDown = FALSE
    /\ lastNotify = [n |-> 0, attached |-> {}, got |-> {}, failed |-> FALSE,
                     reported |-> FALSE, threw |-> FALSE]
    /\ lastRead = [at |-> "", data |-> <<>>, out |-> <<>>]
    /\ lastSub = [op |-> "", method |-> "", threw |-> FALSE]
    /\ probe = [op |-> ""]
    /\ delivered = {}
    /\ issued = <<>>

\* ------------------------------------------------------------ client
\* formatRequest({method, params, id, options}): the request text
formatRequest(method, params, id) == TextOf(RequestObj(method, params, id))

\* formatError({jsonrpc, delimiter, id, code, message}): the error text
formatError(jsonrpc, id, code, emsg) == TextOf(ErrorObj(jsonrpc, code, emsg, id))

\* Client.sendError({jsonrpc, id, code, message}): an error object
sendError(jsonrpc, id, code, emsg) ==
    ErrorObj(IF jsonrpc = "" THEN Version ELSE jsonrpc, code,
             IF emsg = "" THEN "Unknown Error" ELSE emsg, id)

\* request().message: the id member of the frame, and the counter afterwards
MessageIdOf(mid, wantId) == IF wantId THEN mid ELSE Absent
\* a counter that a notification advances too
MessageIdAfterAlways(mid, wantId) == mid + 1
MessageIdAfter(mid, wantId) == IF wantId THEN mid + 1 ELSE mid

\* the stream with one more frame and its delimiter written to it
Written(wire, text) == wire \o <<text, Delim>>
Room(wire) == Len(wire) + 2 <= MaxWire

\* cleanUp(key): clearTimeout(this.timeouts[key])
cleanUp(ts, key) ==
    IF key \in DOMAIN timeouts /\ ts[timeouts[key]].st = "armed"
    THEN [ts EXCEPT ![timeouts[key]].st = "cleared"]
    ELSE ts

\* TCPClient.connect / WSClient.connect, and the attempt succeeds at once:
\* this.client becomes an open socket. TCPClient rejects the call while
\* this.connected is set.
Connect ==
    /\ ~crashed
    /\ ~connected
    /\ link \in {"none", "closed"}
    /\ transport = "tcp" => ~isConnected
    /\ connected' = TRUE
    /\ link' = "open"
    /\ isConnected' = TRUE
    /\ ended' = [ended EXCEPT !.done = FALSE]
    /\ UNCHANGED <<transport, message_id, serving_message_id, pendingCalls,
                   responseQueue, messageBuffer, calls, built, notes, batches,
                   pendingBatches, timers, timeouts, crashed, serverVars, sideVars,
                   remainingRetries, attempts, fails, closedBy, sentClosed,
                   lostPending, c2s, s2c, delivered, issued>>

\* request().message(method, params, id = true)
Message(method, wantId) ==
    /\ ~crashed
    /\ IF wantId THEN message_id <= MaxId /\ method \in FrameMethods
                 ELSE notes < MaxNotes /\ method \in NoteMethods
    /\ built' = built \cup
                 {formatRequest(method, "array", MessageIdOf(message_id, wantId))}
    /\ message_id' = MessageIdAfter(message_id, wantId)
    /\ notes' = IF wantId THEN notes ELSE notes + 1
    /\ issued' = IF wantId THEN Append(issued, MessageIdOf(message_id, wantId))
                           ELSE issued
    /\ UNCHANGED <<transport, connected, serving_message_id, pendingCalls,
                   responseQueue, messageBuffer, calls, batches, pendingBatches,
                   timers, timeouts, crashed, serverVars, auxVars, c2s, s2c, delivered>>

\* what this.client.write(text) / this.client.send(text) does in send():
\* "write" on an open socket; "throw" before message() is evaluated when
\* this.client is undefined; on a socket that is no longer open a net.Socket
\* takes the text and drops it ("lost"), and a WebSocket either does the
\* same or throws after message() was evaluated ("refuse")
WriteOutcomes ==
    IF connected THEN {"write"}
    ELSE IF link = "none" THEN {"throw"}
    ELSE IF transport = "tcp" THEN {"lost"}
    ELSE {"lost", "refuse"}

\* request().send(method, params) of TCPClient and of WSClient; a
\* WebSocket frame leaves the model (no WebSocket server is part of it).
\* A net.Socket that is connecting queues the text; that case is left out.
Send(method) ==
    /\ ~crashed
    /\ Len(calls) < MaxCalls
    /\ message_id <= MaxId
    /\ Room(c2s)
    /\ transport = "tcp" => link # "connecting"
    /\ \E outcome \in WriteOutcomes :
         LET requestId == message_id
             c == Len(calls) + 1
             t == Len(timers) + 1
             promised == Append(calls, NewPromise(<<requestId>>))
         IN  /\ pendingCalls' = Put(pendingCalls, requestId, c)
             /\ c2s' = IF outcome = "write" /\ transport = "tcp"
                       THEN Written(c2s, formatRequest(method, "array",
                                        MessageIdOf(message_id, TRUE)))
                       ELSE c2s
             /\ IF outcome = "throw"
                THEN UNCHANGED <<message_id, issued>>
                ELSE /\ message_id' = MessageIdAfter(message_id, TRUE)
                     /\ issued' = Append(issued, MessageIdOf(message_id, TRUE))
             /\ calls' = IF outcome \in {"throw", "refuse"}
                         THEN Settle(promised, c, "rejected", FALSE, Exception, "write")
                         ELSE promised
             /\ sentClosed' = IF connected THEN sentClosed ELSE sentClosed \cup {c}
             /\ timers' = Append(timers, [st |-> "armed", call |-> TRUE, idx |-> c])
             /\ timeouts' = IF transport = "tcp" THEN Put(timeouts, <<requestId>>, t)
                                                 ELSE timeouts
    /\ UNCHANGED <<transport, connected, serving_message_id, responseQueue,
                   messageBuffer, built, notes, batches, pendingBatches, crashed,
                   serverVars, sideVars, link, isConnected, remainingRetries,
                   attempts, fails, closedBy, ended, lostPending, s2c, delivered>>

\* request().notify(method, params); on a client without a socket it only
\* rejects the promise it returns, which no variable records
Notify(method) ==
    /\ ~crashed
    /\ transport = "tcp"
    /\ connected
    /\ notes < MaxNotes
    /\ Room(c2s)
    /\ notes' = notes + 1
    /\ c2s' = Written(c2s, formatRequest(method, "array", Absent))
    /\ UNCHANGED <<transport, connected, message_id, serving_message_id,
                   pendingCalls, responseQueue, messageBuffer, calls, built,
                   batches, pendingBatches, timers, timeouts, crashed,
                   serverVars, auxVars, s2c, delivered, issued>>

\* the frame lists batch() is called with
BatchArgs ==
    {<<f>> : f \in built} \cup
    (IF MaxBatchLen >= 2 THEN {<<f, g>> : f \in built, g \in built} ELSE {}) \cup
    (IF MaxBatchLen >= 3 THEN {<<f, g, h>> : f \in built, g \in built, h \in built}
                        ELSE {})

\* TCPClient.batch(requests)
Batch(requests) ==
    /\ ~crashed
    /\ transport = "tcp"
    /\ Len(batches) < MaxBatches
    /\ Room(c2s)
    /\ LET batchRequests == [i \in DOMAIN requests |-> requests[i].items[1]]
           batchIds == TruthyIds(batchRequests)
           b == Len(batches) + 1
           t == Len(timers) + 1
           promised == Append(batches, NewPromise(batchIds))
       IN  /\ pendingBatches' = Put(pendingBatches, batchIds, b)
           /\ IF connected
              THEN /\ c2s' = Written(c2s, TextOfArray(batchRequests))
                   /\ batches' = promised
              ELSE /\ batches' = Settle(promised, b, "rejected", TRUE, Exception, "write")
                   /\ UNCHANGED c2s
           /\ timers' = Append(timers, [st |-> "armed", call |-> FALSE, idx |-> b])
           /\ timeouts' = Put(timeouts, batchIds, t)
    \* this.on("batchResponse", this.gotBatchResponse)
    /\ listeners' = [listeners EXCEPT
                        !["batchResponse"] = Append(@, "gotBatchResponse")]
    /\ UNCHANGED <<transport, connected, message_id, serving_message_id,
                   pendingCalls, responseQueue, messageBuffer, calls, built, notes,
                   crashed, serverVars, raw, httpVars, extVars, lifeVars, subs, lastSub, s2c,
                   delivered, issued>>

\* the object a timed-out call is rejected with
TimeoutError == ErrorObj(Version, TimeoutCode, "Request Timeout", Null)

\* the setTimeout callback of send(): TCPClient parses the text formatError
\* returns, WSClient rejects with the text itself and clears nothing
CallTimeout(t) ==
    /\ ~crashed
    /\ t \in DOMAIN timers
    /\ timers[t].st = "armed"
    /\ timers[t].call
    /\ LET key == calls[timers[t].idx].key
           requestId == key[1]
           fired == [timers EXCEPT ![t].st = "fired"]
           text == formatError(Version, Null, TimeoutCode, "Request Timeout")
       IN  /\ timers' = IF transport = "tcp" THEN cleanUp(fired, key) ELSE fired
           /\ IF requestId \in DOMAIN pendingCalls
              THEN /\ calls' = Settle(calls, pendingCalls[requestId], "rejected",
                                      transport # "tcp", text, "timeout")
                   /\ pendingCalls' = Delete(pendingCalls, requestId)
              ELSE UNCHANGED <<calls, pendingCalls>>
    /\ UNCHANGED <<transport, connected, message_id, serving_message_id,
                   responseQueue, messageBuffer, built, notes, batches,
                   pendingBatches, timeouts, crashed, serverVars, auxVars, c2s, s2c,
                   delivered, issued>>

\* the setTimeout callback of batch()
BatchTimeout(t) ==
    /\ ~crashed
    /\ t \in DOMAIN timers
    /\ timers[t].st = "armed"
    /\ ~timers[t].call
    /\ LET key == batches[timers[t].idx].key
           fired == [timers EXCEPT ![t].st = "fired"]
           text == formatError(Version, Null, TimeoutCode, "Request Timeout")
       IN  /\ timers' = cleanUp(fired, key)
           /\ IF key \in DOMAIN pendingBatches
              THEN /\ batches' = Settle(batches, pendingBatches[key], "rejected",
                                        FALSE, text, "timeout")
                   /\ pendingBatches' = Delete(pendingBatches, key)
              ELSE UNCHANGED <<batches, pendingBatches>>
    /\ UNCHANGED <<transport, connected, message_id, serving_message_id,
                   pendingCalls, responseQueue, messageBuffer, calls, built, notes,
                   timeouts, crashed, serverVars, auxVars, c2s, s2c, delivered, issued>>

\* ------------------------------------------------------------ client, receiving
\* verifyData's loop goes on to the next chunk only past an empty chunk and
\* past a message that has an id, no error member and a method
PassedOver(chunk) ==
    \/ chunk.k = "empty"
    \/ /\ chunk.k = "obj"
       /\ ~Falsy(chunk.items[1].id)
       /\ chunk.items[1].code = 0
       /\ chunk.items[1].method # ""

RECURSIVE StopsAt(_, _)
\* the chunk at which verifyData returns, 0 when the loop runs to its end
StopsAt(messages, i) ==
    IF i > Len(messages) THEN 0
    ELSE IF PassedOver(messages[i]) THEN StopsAt(messages, i + 1)
    ELSE i

\* tcp.js 187-189: the pending ids that the response does not carry are none
Matches(ids, batchResponseIds) ==
    \A i \in DOMAIN ids : ids[i] \in Range(batchResponseIds)

RECURSIVE cleanUpAll(_, _)
\* cleanUp(ids) for each matched key, one after the other
cleanUpAll(ts, keys) ==
    IF keys = {} THEN ts
    ELSE LET k == CHOOSE x \in keys : TRUE
         IN  cleanUpAll(cleanUp(ts, k), keys \ {k})

\* a listener that resolves the matched batch whatever its elements carry
gotBatchResponseResolving(batch) ==
    LET batchResponseIds == TruthyIds(batch)
        matched == {ids \in DOMAIN pendingBatches : Matches(ids, batchResponseIds)}
    IN  /\ timers' = cleanUpAll(timers, matched)
        /\ batches' = [b \in DOMAIN batches |->
                         IF \E ids \in matched : pendingBatches[ids] = b
                         THEN Settle(batches, b, "resolved", FALSE,
                                     TextOfArray(batch), "response")[b]
                         ELSE batches[b]]
        /\ pendingBatches' = [ids \in DOMAIN pendingBatches \ matched |->
                                pendingBatches[ids]]

\* TCPClient.gotBatchResponse(batch), the listener of "batchResponse": every
\* call of it by one emit after the first finds nothing left to match
gotBatchResponse(batch) ==
    LET batchResponseIds == TruthyIds(batch)
        matched == {ids \in DOMAIN pendingBatches : Matches(ids, batchResponseIds)}
        hasError == \E i \in DOMAIN batch : batch[i].code # 0
    IN  /\ timers' = cleanUpAll(timers, matched)
        /\ batches' = [b \in DOMAIN batches |->
                         IF \E ids \in matched : pendingBatches[ids] = b
                         THEN Settle(batches, b,
                                     IF hasError THEN "rejected" ELSE "resolved",
                                     FALSE, TextOfArray(batch), "response")[b]
                         ELSE batches[b]]
        /\ pendingBatches' = [ids \in DOMAIN pendingBatches \ matched |->
                                pendingBatches[ids]]

\* a listener that resolves the call with the error
handleErrorResolving(error) ==
    Settle(calls, pendingCalls[error.id], "resolved", FALSE, TextOf(error), "error")

\* the listener handleError() registers for "messageError"; it throws a
\* TypeError when pendingCalls has no entry for error.id
handleErrorThrows(error) == error.id \notin DOMAIN pendingCalls
handleError(error) ==
    Settle(calls, pendingCalls[error.id], "rejected", FALSE, TextOf(error), "error")

\* emit(event, ...) reaches the listener as long as it is registered
Registered(event, listener) == listener \in Range(listeners[event])

\* the catch block of verifyData's loop: a parse error for the call being
\* served; a throw of its listener leaves the data handler uncaught
CatchInLoop ==
    LET error == sendError("", serving_message_id, ParseErrorCode, "Parse Error")
    IN  IF ~Registered("messageError", "handleError")
        THEN UNCHANGED <<calls, crashed>>
        ELSE IF handleErrorThrows(error)
        THEN crashed' = TRUE /\ UNCHANGED calls
        ELSE calls' = handleError(error) /\ UNCHANGED crashed

\* a listener that settles the oldest pending call, whatever the id
handleResponseOldest(id, queue) ==
    LET open == {c \in DOMAIN calls : calls[c].st = "pending"}
        oldest == CHOOSE c \in open : \A d \in open : c <= d
    IN  IF open # {}
        THEN /\ calls' = Settle(calls, oldest, "resolved", FALSE,
                                TextOf(queue[id]), "response")
             /\ responseQueue' = Delete(queue, id)
        ELSE /\ responseQueue' = queue
             /\ UNCHANGED calls

\* the listener handleResponse() registers for "response"
handleResponse(id, queue) ==
    IF id \in DOMAIN pendingCalls
    THEN /\ calls' = Settle(calls, pendingCalls[id], "resolved", FALSE,
                            TextOf(queue[id]), "response")
         /\ responseQueue' = Delete(queue, id)
    ELSE /\ responseQueue' = queue
         /\ UNCHANGED calls

\* Client.verifyData() on this.messageBuffer = buffer
verifyData(buffer) ==
    LET messages == Split(buffer)
        at == StopsAt(messages, 1)
        chunk == messages[at]
        message == chunk.items[1]
    IN  /\ messageBuffer' = <<>>
        /\ IF Len(messages) > 1
           THEN /\ UNCHANGED <<batches, pendingBatches, timers>>
                /\ IF at = 0
                      THEN UNCHANGED <<calls, crashed, responseQueue, serving_message_id>>
                   ELSE IF ~Parses(chunk)
                      THEN CatchInLoop /\ UNCHANGED <<responseQueue, serving_message_id>>
                   ELSE IF chunk.k = "arr" \/ Falsy(message.id)
                      \* emit("notify", message)
                      THEN UNCHANGED <<calls, crashed, responseQueue, serving_message_id>>
                   ELSE IF message.code # 0
                      THEN LET error == sendError(message.jsonrpc, message.id,
                                                  message.code, message.emsg)
                           IN  /\ IF ~Registered("messageError", "handleError")
                                  THEN UNCHANGED <<calls, crashed>>
                                  ELSE IF handleErrorThrows(error)
                                  THEN CatchInLoop
                                  ELSE calls' = handleError(error) /\ UNCHANGED crashed
                               /\ UNCHANGED <<responseQueue, serving_message_id>>
                   ELSE /\ serving_message_id' = message.id
                        /\ IF Registered("response", "handleResponse")
                           THEN handleResponse(message.id,
                                               Put(responseQueue, message.id, message))
                           ELSE /\ responseQueue' = Put(responseQueue, message.id, message)
                                /\ UNCHANGED calls
                        /\ UNCHANGED crashed
           ELSE /\ UNCHANGED <<calls, crashed, responseQueue, serving_message_id>>
                /\ IF messages[1].k = "arr"
                   THEN gotBatchResponse(messages[1].items)
                   \* not JSON: emit("batchError"); not an array: forEach throws
                   \* inside the try, and emit("batchError") again
                   ELSE UNCHANGED <<batches, pendingBatches, timers>>

\* the batches whose own reply, complete and free of errors, is in the data
Answered(data) ==
    {b \in DOMAIN batches :
        /\ batches[b].st = "pending"
        /\ \E i \in DOMAIN data :
              /\ data[i].k = "arr"
              /\ TruthyIds(data[i].items) = batches[b].key
              /\ \A j \in DOMAIN data[i].items : data[i].items[j].code = 0}

\* the "data" listener of Client.listen(): one read of n tokens of the stream
ClientRead(n) ==
    /\ ~crashed
    /\ transport = "tcp"
    /\ connected
    /\ n \in 1..MaxRead
    /\ n <= Len(s2c)
    /\ s2c' = SubSeq(s2c, n + 1, Len(s2c))
    /\ verifyData(messageBuffer \o TrimLeft(SubSeq(s2c, 1, n)))
    /\ delivered' = delivered \cup Answered(SubSeq(s2c, 1, n))
    /\ UNCHANGED <<transport, connected, message_id, pendingCalls, built, notes,
                   timeouts, serverVars, auxVars, c2s, issued>>

\* ------------------------------------------------------------ server
\* Server.formatError(id, code, message): the text of an error response
ServerFormatError(id, code, emsg) ==
    IF Version = "2.0"
    THEN ErrorObj(Version, code, IF emsg = "" THEN "Unknown Error" ELSE emsg, id)
    ELSE ErrorObj("", code, IF emsg = "" THEN "Unknown Error" ELSE emsg, id)

\* Server.formatError of a server constructed with options.version = version
formatErrorOf(version, id, code, emsg) ==
    IF version = "2.0"
    THEN ErrorObj(version, code, IF emsg = "" THEN "Unknown Error" ELSE emsg, id)
    ELSE ErrorObj("", code, IF emsg = "" THEN "Unknown Error" ELSE emsg, id)

\* formatResponse({jsonrpc, id, result, delimiter}): the text of a response
formatResponse(jsonrpc, id, result) == ResponseObj(jsonrpc, result, id)

\* a validateRequest that reports a text that is not JSON as an invalid request
validateRequestInvalid(chunk) ==
    [ok |-> Parses(chunk),
     err |-> ServerFormatError(Null, InvalidRequestCode, "Invalid Request")]

\* Server.validateRequest(request): JSON.parse, or the Parse Error response
\* the Error it throws carries
validateRequest(chunk) ==
    [ok |-> Parses(chunk),
     err |-> ServerFormatError(Null, ParseErrorCode, "Parse Error")]

\* a validateMessage that answers a method member that is no string with id null
validateMessageNullId(message) ==
    IF message.method = "" \/ message.method = NonString
    THEN [tag |-> "error",
          msg |-> ServerFormatError(Null, InvalidRequestCode, "Invalid Request")]
    ELSE IF Falsy(message.id)
    THEN [tag |-> "notification", msg |-> message]
    ELSE IF message.jsonrpc # "" /\ Version # "2.0"
    THEN [tag |-> "error",
          msg |-> ServerFormatError(message.id, InvalidRequestCode, "Invalid Request")]
    ELSE IF message.method \notin DOMAIN methods
    THEN [tag |-> "error",
          msg |-> ServerFormatError(message.id, MethodNotFoundCode, "Method not found")]
    ELSE IF message.params \notin {"array", "object"}
    THEN [tag |-> "error",
          msg |-> ServerFormatError(message.id, InvalidParamsCode, "Invalid Parameters")]
    ELSE [tag |-> "request", msg |-> message]

\* Server.validateMessage(message) of a parsed object: the message itself,
\* {notification: message}, or the error response the thrown Error carries
validateMessage(message) ==
    IF message.method = "" \/ message.method = NonString
    THEN [tag |-> "error",
          msg |-> ServerFormatError(message.id, InvalidRequestCode, "Invalid Request")]
    ELSE IF Falsy(message.id)
    THEN [tag |-> "notification", msg |-> message]
    ELSE IF message.jsonrpc # "" /\ Version # "2.0"
    THEN [tag |-> "error",
          msg |-> ServerFormatError(message.id, InvalidRequestCode, "Invalid Request")]
    ELSE IF message.method \notin DOMAIN methods
    THEN [tag |-> "error",
          msg |-> ServerFormatError(message.id, MethodNotFoundCode, "Method not found")]
    ELSE IF message.params \notin {"array", "object"}
    THEN [tag |-> "error",
          msg |-> ServerFormatError(message.id, InvalidParamsCode, "Invalid Parameters")]
    ELSE [tag |-> "request", msg |-> message]

\* Server.validateMessage(message) of a server constructed with
\* options.version = version. The jsonrpc member is only tested for being
\* truthy, and then the configured version for not being "2.0"; a params
\* member that is absent is neither an array nor an object.
validateMessageOf(version, message) ==
    IF message.method = "" \/ message.method = NonString
    THEN [tag |-> "error",
          msg |-> formatErrorOf(version, message.id, InvalidRequestCode, "Invalid Request")]
    ELSE IF Falsy(message.id)
    THEN [tag |-> "notification", msg |-> message]
    ELSE IF message.jsonrpc # "" /\ version # "2.0"
    THEN [tag |-> "error",
          msg |-> formatErrorOf(version, message.id, InvalidRequestCode, "Invalid Request")]
    ELSE IF message.method \notin DOMAIN methods
    THEN [tag |-> "error",
          msg |-> formatErrorOf(version, message.id, MethodNotFoundCode, "Method not found")]
    ELSE IF message.params \notin {"array", "object"}
    THEN [tag |-> "error",
          msg |-> formatErrorOf(version, message.id, InvalidParamsCode, "Invalid Parameters")]
    ELSE [tag |-> "request", msg |-> message]

\* what the registered handler returns for the params of the model
Returned(method) == IF method = "add" THEN "sum" ELSE "done"

\* JSON.stringify of a string
Quoted(text) == "\"" \o text \o "\""

\* a getResult that hands on the value a promise is fulfilled with as it is
getResultBare(message) ==
    LET kind == methods[message.method]
        id == message.id
    IN  CASE kind \in {"value", "deferred"} ->
               [st |-> IF kind = "value" THEN "ok" ELSE "wait", rej |-> FALSE,
                out |-> formatResponse(message.jsonrpc, id, Returned(message.method))]
          [] kind = "falsy" ->
               [st |-> "ok", rej |-> FALSE,
                out |-> formatResponse(message.jsonrpc, id, "{}")]
          [] kind \in {"undefined", "typeerror"} ->
               [st |-> "ok", rej |-> TRUE,
                out |-> ServerFormatError(id, InvalidParamsCode, "Invalid Parameters")]
          [] kind = "throws" ->
               [st |-> "ok", rej |-> TRUE,
                out |-> ServerFormatError(id, InternalErrorCode, "")]
          [] kind = "rejects" ->
               [st |-> "wait", rej |-> TRUE,
                out |-> ServerFormatError(id, InternalErrorCode, Quoted(FailureText))]

\* Server.getResult(message) for a validated request. st = "ok": the promise
\* it returns is settled at once, st = "wait": when the handler's promise is;
\* rej: it is rejected (with the error text out), not resolved (with the
\* response text out). A deferred result is the array Promise.all settles
\* with; `result.then` of undefined throws a TypeError inside the try.
getResult(message) ==
    LET kind == methods[message.method]
        id == message.id
    IN  CASE kind = "value" ->
               [st |-> "ok", rej |-> FALSE,
                out |-> formatResponse(message.jsonrpc, id, Returned(message.method))]
          [] kind = "falsy" ->
               [st |-> "ok", rej |-> FALSE,
                out |-> formatResponse(message.jsonrpc, id, "{}")]
          [] kind \in {"undefined", "typeerror"} ->
               [st |-> "ok", rej |-> TRUE,
                out |-> ServerFormatError(id, InvalidParamsCode, "Invalid Parameters")]
          [] kind = "throws" ->
               [st |-> "ok", rej |-> TRUE,
                out |-> ServerFormatError(id, InternalErrorCode, "")]
          [] kind = "deferred" ->
               [st |-> "wait", rej |-> FALSE,
                out |-> formatResponse(message.jsonrpc, id,
                                       "[" \o Returned(message.method) \o "]")]
          [] kind = "rejects" ->
               [st |-> "wait", rej |-> TRUE,
                out |-> ServerFormatError(id, InternalErrorCode, Quoted(FailureText))]

\* one element of handleBatchRequest's map. An Error validateMessage threw
\* is turned into its error response by JSON.parse(error.message). getResult
\* is called with what validateMessage returned: for {notification: message}
\* it finds no handler and rejects with the text of an error. Whenever
\* getResult rejects, it rejects with a string, JSON.parse(error.message) of
\* a string throws, and that rejects the whole Promise.all (st = "fatal").
BatchElement(request) ==
    LET v == validateMessage(request)
        slot == getResult(v.msg)
    IN  IF v.tag = "error" THEN [st |-> "ok", rej |-> FALSE, out |-> v.msg]
        ELSE IF v.tag = "notification"
        THEN [st |-> "fatal", rej |-> TRUE, out |-> EmptyObj]
        ELSE IF slot.st = "ok" /\ slot.rej THEN [slot EXCEPT !.st = "fatal"]
        ELSE slot

\* the requests of a frame whose registered handler is called
Ran(chunk) ==
    {chunk.items[i] : i \in {j \in DOMAIN chunk.items :
                                validateMessage(chunk.items[j]).tag = "request"}}

\* Server.handleBatchRequest(requests)
handleBatchRequest(requests) == [i \in DOMAIN requests |-> BatchElement(requests[i])]

Outs(slots) == [i \in DOMAIN slots |-> slots[i].out]

\* Server.onNotify(method, cb) listeners run by emit("notify", message)
onNotify(cbs, message) ==
    {[cb |-> m, msg |-> message] : m \in {x \in cbs : message.method = x}}

\* server.onNotify(method, cb)
OnNotify(method) ==
    /\ method \in CbMethods \ notifyCbs
    /\ notifyCbs' = notifyCbs \cup {method}
    /\ UNCHANGED <<clientVars, auxVars, srvBuffer, jobs, cbCalls, handled, writes, invoked,
                   c2s, s2c, delivered, issued>>

\* the reply to one chunk: the text written at once (EmptyText when nothing
\* is written), the job left waiting (none when slots = <<>>), the callbacks run
Dispatch(chunk) ==
    LET none == [text |-> EmptyText, slots |-> <<>>, batch |-> FALSE, called |-> {},
                 ran |-> IF Parses(chunk) THEN Ran(chunk) ELSE {}]
    IN  IF ~validateRequest(chunk).ok
        THEN [none EXCEPT !.text = TextOf(validateRequest(chunk).err)]
        ELSE IF chunk.k = "arr"
        THEN IF chunk.items = <<>>
             THEN [none EXCEPT !.text =
                      TextOf(ServerFormatError(Null, InvalidRequestCode, "Invalid Request"))]
             ELSE LET slots == handleBatchRequest(chunk.items)
                  IN  IF \E i \in DOMAIN slots : slots[i].st = "fatal"
                      THEN [none EXCEPT !.text = TextOf(EmptyObj)]
                      ELSE IF \E i \in DOMAIN slots : slots[i].st = "wait"
                      THEN [none EXCEPT !.slots = slots, !.batch = TRUE]
                      ELSE [none EXCEPT !.text = TextOfArray(Outs(slots))]
        ELSE LET v == validateMessage(chunk.items[1])
             IN  IF v.tag = "error" THEN [none EXCEPT !.text = TextOf(v.msg)]
                 ELSE IF v.tag = "notification"
                 THEN [none EXCEPT !.called = onNotify(notifyCbs, v.msg)]
                 ELSE LET slot == getResult(v.msg)
                      IN  IF slot.st = "wait" THEN [none EXCEPT !.slots = <<slot>>]
                          ELSE [none EXCEPT !.text = TextOf(slot.out)]

RECURSIVE FirstChunk(_, _)
\* the first chunk that is not empty, 0 when there is none
FirstChunk(messages, i) ==
    IF i > Len(messages) THEN 0
    ELSE IF messages[i].k # "empty" THEN i
    ELSE FirstChunk(messages, i + 1)

\* the "data" listener of TCPServer.handleData(): one read of n tokens. The
\* loop returns at the first chunk that is not empty.
ServerRead(n) ==
    /\ n \in 1..MaxRead
    /\ n <= Len(c2s)
    /\ c2s' = SubSeq(c2s, n + 1, Len(c2s))
    /\ srvBuffer' = <<>>
    /\ LET messages == Split(srvBuffer \o SubSeq(c2s, 1, n))
           at == FirstChunk(messages, 1)
           chunk == messages[at]
           did == Dispatch(chunk)
       IN  IF at = 0
           THEN UNCHANGED <<jobs, cbCalls, handled, writes, invoked, s2c>>
           ELSE /\ handled' = handled \cup {[frame |-> chunk, cbs |-> notifyCbs]}
                /\ invoked' = invoked \cup did.ran
                /\ cbCalls' = cbCalls \cup did.called
                /\ jobs' = IF did.slots = <<>> THEN jobs
                           ELSE jobs \cup {[req |-> chunk, batch |-> did.batch,
                                            slots |-> did.slots]}
                /\ IF did.text = EmptyText
                   THEN UNCHANGED <<writes, s2c>>
                   ELSE /\ s2c' = Written(s2c, did.text)
                        /\ writes' = writes \cup {[req |-> chunk, out |-> did.text]}
    /\ UNCHANGED <<clientVars, auxVars, notifyCbs, delivered, issued>>

\* the promise a handler returned is fulfilled; the reply is written when no
\* result of the job is awaited any more
HandlerDone(job, i) ==
    /\ job \in jobs
    /\ i \in DOMAIN job.slots
    /\ job.slots[i].st = "wait"
    /\ LET slots == [job.slots EXCEPT ![i].st = "ok"]
           fatal == job.batch /\ job.slots[i].rej
           text == IF fatal THEN TextOf(EmptyObj)
                   ELSE IF job.batch THEN TextOfArray(Outs(slots))
                   ELSE TextOf(slots[1].out)
       IN  IF ~fatal /\ \E j \in DOMAIN slots : slots[j].st = "wait"
           THEN /\ jobs' = (jobs \ {job}) \cup {[job EXCEPT !.slots = slots]}
                /\ UNCHANGED <<s2c, writes>>
           ELSE /\ jobs' = jobs \ {job}
                /\ s2c' = Written(s2c, text)
                /\ writes' = writes \cup {[req |-> job.req, out |-> text]}
    /\ UNCHANGED <<clientVars, auxVars, srvBuffer, notifyCbs, cbCalls, handled, invoked,
                   c2s, delivered, issued>>

\* ------------------------------------------------------------ plain socket
\* the frames the tests write through a net.Socket: requests with id 1 for
\* every handler, for a method that is not registered, for a method member
\* that is a number and for none at all; a notification; a text that is not
\* JSON; batches of one request with id 1 and one with id 2; the empty batch
RawMethods == DOMAIN methods \cup {"nope", NonString, ""}
BatchMethods == {"add", "slow", "nope", "typeerror", "throws", "promisereject", NonString}
RawFrames ==
    {TextOf(RequestObj(m, "array", 1)) : m \in RawMethods}
    \cup {TextOf(RequestObj("ping", "array", Absent)), Garbage, TextOfArray(<<>>)}
    \cup {TextOfArray(<<RequestObj(m, "array", 1), RequestObj(n, "array", 2)>>) :
               m \in BatchMethods, n \in BatchMethods}

\* socket.write(frame + "\n")
RawWrite(frame) ==
    /\ raw < MaxRaw
    /\ Room(c2s)
    /\ raw' = raw + 1
    /\ c2s' = Written(c2s, frame)
    /\ UNCHANGED <<clientVars, serverVars, lifeVars, emitterVars, httpVars, extVars, s2c,
                   delivered, issued>>

\* ------------------------------------------------------------ subscribe
RECURSIVE WithoutLast(_, _)
\* EventEmitter.removeListener: the listeners without the last cb among them
WithoutLast(ls, cb) ==
    IF ls = <<>> THEN <<>>
    ELSE IF ls[Len(ls)] = cb THEN SubSeq(ls, 1, Len(ls) - 1)
    ELSE Append(WithoutLast(SubSeq(ls, 1, Len(ls) - 1), cb), ls[Len(ls)])

\* the reserved event name makes the three operations throw
Reserved(method) == method = "batchResponse"

\* a subscribe that takes every event name
SubscribeAny(method, cb) ==
    /\ ~crashed
    /\ subs < MaxSubs
    /\ subs' = subs + 1
    /\ lastSub' = [op |-> "subscribe", method |-> method, threw |-> FALSE]
    /\ listeners' = [listeners EXCEPT ![method] = Append(@, cb)]
    /\ UNCHANGED <<clientVars, serverVars, wireVars, raw, httpVars, extVars, lifeVars>>

\* subscribe(method, cb): this.on(method, cb)
Subscribe(method, cb) ==
    /\ ~crashed
    /\ subs < MaxSubs
    /\ subs' = subs + 1
    /\ lastSub' = [op |-> "subscribe", method |-> method, threw |-> Reserved(method)]
    /\ listeners' = IF Reserved(method) THEN listeners
                     ELSE [listeners EXCEPT ![method] = Append(@, cb)]
    /\ UNCHANGED <<clientVars, serverVars, wireVars, raw, httpVars, extVars, lifeVars>>

\* unsubscribe(method, cb): this.removeListener(method, cb)
Unsubscribe(method, cb) ==
    /\ ~crashed
    /\ subs < MaxSubs
    /\ subs' = subs + 1
    /\ lastSub' = [op |-> "unsubscribe", method |-> method, threw |-> Reserved(method)]
    /\ listeners' = IF Reserved(method) THEN listeners
                     ELSE [listeners EXCEPT ![method] = WithoutLast(@, cb)]
    /\ UNCHANGED <<clientVars, serverVars, wireVars, raw, httpVars, extVars, lifeVars>>

\* unsubscribeAll(method): this.removeAllListeners([method]); the array is
\* turned into the string it holds when it is used as a key
UnsubscribeAll(method) ==
    /\ ~crashed
    /\ subs < MaxSubs
    /\ subs' = subs + 1
    /\ lastSub' = [op |-> "unsubscribeAll", method |-> method, threw |-> Reserved(method)]
    /\ listeners' = IF Reserved(method) THEN listeners
                     ELSE [listeners EXCEPT ![method] = <<>>]
    /\ UNCHANGED <<clientVars, serverVars, wireVars, raw, httpVars, extVars, lifeVars>>

\* ------------------------------------------------------------ HTTP
\* methods the HTTP client's notify() is called with: one that the server
\* has a handler for and one that it has none for
HttpMethods == {"add", "ping"}
NoStatus == 0

\* errorToStatus[String(errorCode)]
errorToStatus(code) ==
    CASE code = ParseErrorCode -> 500
      [] code = InvalidRequestCode -> 400
      [] code = MethodNotFoundCode -> 404
      [] code = InvalidParamsCode -> 400
      [] code = InternalErrorCode -> 500
      [] OTHER -> 500

\* HTTPServer.setResponseHeader(response, errorCode)
setResponseHeader(errorCode) == IF errorCode # 0 THEN errorToStatus(errorCode) ELSE 200

\* the "end" listener of HTTPServer.handleData() for a body of one delimited
\* message: validateRequest(message).then(({ json }) => this.getResult(json)).
\* A message that does not pass validation is answered with its error and
\* the status of its code. getResult is called for every other message,
\* notification or not: with a handler that returns, the reply has status
\* 200 and the response as its body; when getResult rejects, it rejects with
\* a string, error.error.code throws in both catch handlers and in the
\* catch of Promise.all, and no reply is written.
HttpReply(message) ==
    LET structure == validateMessage([message EXCEPT !.id = 1])
        none == [status |-> NoStatus, body |-> EmptyText]
    IN  IF message.method = "" \/ message.method = NonString
        THEN [status |-> setResponseHeader(structure.msg.code),
              body |-> TextOf([structure.msg EXCEPT !.id = message.id])]
        ELSE IF message.method \notin DOMAIN methods THEN none
        ELSE IF getResult(message).rej \/ getResult(message).st # "ok" THEN none
        ELSE [status |-> setResponseHeader(0), body |-> TextOf(getResult(message).out)]

\* HTTPClient.request().notify(method, params): a request of its own
HttpNotify(method) ==
    /\ Len(httpCalls) < MaxHttp
    /\ httpCalls' = Append(httpCalls,
                           [request |-> formatRequest(method, "array", Absent),
                            served |-> FALSE, status |-> NoStatus, body |-> EmptyText,
                            st |-> "pending", by |-> ""])
    /\ UNCHANGED <<clientVars, serverVars, wireVars, raw, lifeVars, emitterVars, extVars>>

\* the server has read the whole body of request i
HttpServe(i) ==
    /\ i \in DOMAIN httpCalls
    /\ ~httpCalls[i].served
    /\ httpCalls[i].by # "error"
    /\ LET reply == HttpReply(httpCalls[i].request.items[1])
       IN  httpCalls' = [httpCalls EXCEPT ![i].served = TRUE,
                                          ![i].status = reply.status,
                                          ![i].body = reply.body]
    /\ UNCHANGED <<clientVars, serverVars, wireVars, raw, lifeVars, emitterVars, extVars>>

\* the callback of http.request: the reply to request i has arrived
HttpResponse(i) ==
    /\ i \in DOMAIN httpCalls
    /\ httpCalls[i].served
    /\ httpCalls[i].status # NoStatus
    /\ httpCalls[i].st = "pending"
    /\ httpCalls' = [httpCalls EXCEPT
                        ![i].st = IF httpCalls[i].status = 204 THEN "resolved"
                                                               ELSE "rejected",
                        ![i].by = "response"]
    /\ UNCHANGED <<clientVars, serverVars, wireVars, raw, lifeVars, emitterVars, extVars>>

\* notification.on("error"): the request fails before a reply has arrived
HttpError(i) ==
    /\ i \in DOMAIN httpCalls
    /\ httpCalls[i].st = "pending"
    /\ httpCalls' = [httpCalls EXCEPT ![i].st = "rejected", ![i].by = "error"]
    /\ UNCHANGED <<clientVars, serverVars, wireVars, raw, lifeVars, emitterVars, extVars>>

\* ------------------------------------------------------------ byte streams
\* Below the level of whole messages a stream is a sequence of bytes: the
\* text of message m written to end e is the two bytes Byte(e, m, 1) and
\* Byte(e, m, 2), followed by the delimiter. The end a byte was written to
\* is carried along with it; what the byte says is its message and part.
Byte(e, m, p) == [k |-> "byte", items |-> <<e, m, p>>]
Whole(e, m) == <<Byte(e, m, 1), Byte(e, m, 2)>>

RECURSIVE ByteSplit(_)
\* String.prototype.split(delimiter) on a sequence of bytes
ByteSplit(bytes) ==
    IF bytes = <<>> THEN << <<>> >>
    ELSE IF Head(bytes) = Delim THEN << <<>> >> \o ByteSplit(Tail(bytes))
    ELSE LET rest == ByteSplit(Tail(bytes))
         IN  << <<Head(bytes)>> \o Head(rest) >> \o Tail(rest)

\* the segment is the text of one message from its first byte to its last
Complete(seg) ==
    /\ Len(seg) = 2
    /\ seg[1].items[2] = seg[2].items[2]
    /\ seg[1].items[3] = 1
    /\ seg[2].items[3] = 2

\* the text a segment is: a request to the servers, a response to the client
Decode(e, seg) ==
    IF seg = <<>> THEN EmptyText
    ELSE IF ~Complete(seg) THEN Garbage
    ELSE IF e = "cli" THEN TextOf(ResponseObj(Version, "value", seg[1].items[2]))
    ELSE TextOf(RequestObj("add", "array", seg[1].items[2]))

RECURSIVE FirstSegment(_, _)
\* `if (chunk !== "")`: the first segment that is not empty, 0 when none is
FirstSegment(messages, i) ==
    IF i > Len(messages) THEN 0
    ELSE IF messages[i] # <<>> THEN i
    ELSE FirstSegment(messages, i + 1)

RECURSIVE Repeat(_, _)
Repeat(bytes, times) == IF times = 0 THEN <<>> ELSE bytes \o Repeat(bytes, times - 1)

SentTotal == sent["tcpA"] + sent["tcpB"] + sent["httpA"] + sent["httpB"] + sent["cli"]

\* one dispatched chunk: the end it was read at, its bytes, how it was
\* dispatched, and the end and the text of the reply written for it
Dispatched(e, seg, how, text) ==
    [at |-> e, seg |-> seg, how |-> how, to |-> e, text |-> text]

\* socket.write(message + delimiter), request.write(message + delimiter):
\* the next message is written to the stream of end e
SocketWrite(e) ==
    /\ SentTotal < MaxSent
    /\ e \in HttpEnds => httpOpen[e] > 0 /\ e \notin httpEnded
    /\ sent' = [sent EXCEPT ![e] = @ + 1]
    /\ streams' = [streams EXCEPT ![e] = @ \o Whole(e, sent[e] + 1) \o <<Delim>>]
    /\ UNCHANGED <<coreVars, netVars, linkVars, probeVars, httpBuffer, requestListeners, httpOpen, httpEnded, httpConns,
                   parsed, lastRead>>

\* the "data" listener of TCPServer.handleData() for the socket e: one read
\* of the next n bytes. The loop returns at the first chunk that is not
\* empty, and the buffer is emptied whatever it held.
TcpData(e, n) ==
    /\ e \in TcpEnds
    /\ n \in 1..Len(streams[e])
    /\ LET data == SubSeq(streams[e], 1, n)
           messages == ByteSplit(srvBuffer \o data)
           at == FirstSegment(messages, 1)
           out == IF at = 0 THEN <<>>
                  ELSE <<Dispatched(e, messages[at], "request",
                                    Dispatch(Decode(e, messages[at])).text)>>
       IN  /\ parsed' = parsed \o out
           /\ lastRead' = [at |-> e, data |-> data, out |-> out]
    /\ srvBuffer' = <<>>
    /\ streams' = [streams EXCEPT ![e] = SubSeq(@, n + 1, Len(@))]
    /\ UNCHANGED <<clientVars, wireVars, raw, lifeVars, emitterVars, httpVars,
                   jobs, notifyCbs, cbCalls, handled, writes, invoked, netVars, linkVars, probeVars,
                   sent, httpBuffer, requestListeners, httpOpen, httpEnded, httpConns>>

\* the "data" listener of Client.listen() and Client.verifyData(): one read
\* of the next n bytes. With a delimiter in the buffer the loop returns at
\* the first chunk that is not empty; with none the whole buffer is taken
\* for a batch response. The buffer is emptied whatever it held.
ClientData(n) ==
    /\ n \in 1..Len(streams["cli"])
    /\ LET data == SubSeq(streams["cli"], 1, n)
           messages == ByteSplit(messageBuffer \o TrimLeft(data))
           at == FirstSegment(messages, 1)
           out == IF at = 0 THEN <<>>
                  ELSE IF Len(messages) > 1
                  THEN <<Dispatched("cli", messages[at],
                                    IF Complete(messages[at]) THEN "response"
                                                              ELSE "messageError",
                                    EmptyText)>>
                  ELSE <<Dispatched("cli", messages[at],
                                    IF Complete(messages[at]) THEN "batchResponse"
                                                              ELSE "batchError",
                                    EmptyText)>>
       IN  /\ parsed' = parsed \o out
           /\ lastRead' = [at |-> "cli", data |-> data, out |-> out]
    /\ messageBuffer' = <<>>
    /\ streams' = [streams EXCEPT !["cli"] = SubSeq(@, n + 1, Len(@))]
    /\ UNCHANGED <<transport, connected, message_id, serving_message_id, pendingCalls,
                   responseQueue, calls, built, notes, batches, pendingBatches,
                   timers, timeouts, crashed, serverVars, wireVars, raw, lifeVars,
                   emitterVars, httpVars, netVars, linkVars, probeVars, sent, httpBuffer, requestListeners,
                   httpOpen, httpEnded, httpConns>>

\* the "connection" listener of HTTPServer.handleData() adds a "request"
\* listener to the server; the request e that arrives on the new connection
\* is given a "data" and an "end" listener by each "request" listener
HttpOpen(e) ==
    /\ e \in HttpEnds
    /\ httpOpen[e] = 0
    /\ httpConns[e] = "none"
    /\ requestListeners' = requestListeners + 1
    /\ httpOpen' = [httpOpen EXCEPT ![e] = requestListeners + 1]
    /\ httpConns' = [httpConns EXCEPT ![e] = "request"]
    /\ UNCHANGED <<coreVars, netVars, linkVars, probeVars, streams, sent, httpBuffer, httpEnded, parsed, lastRead>>

\* request.on("data"): this.messageBuffer += data, once for each listener
HttpBody(e, n) ==
    /\ e \in HttpEnds
    /\ httpOpen[e] > 0
    /\ e \notin httpEnded
    /\ n \in 1..Len(streams[e])
    /\ httpBuffer' = httpBuffer \o Repeat(SubSeq(streams[e], 1, n), httpOpen[e])
    /\ streams' = [streams EXCEPT ![e] = SubSeq(@, n + 1, Len(@))]
    /\ UNCHANGED <<coreVars, netVars, linkVars, probeVars, sent, requestListeners, httpOpen, httpEnded, httpConns, parsed, lastRead>>

\* request.on("end"): the first "end" listener splits what the buffer of the
\* server holds and empties it; every chunk that is not empty is validated
\* and answered on the response of request e. With no delimiter the buffer
\* is parsed as a batch. The listeners after the first find the buffer empty.
HttpEnd(e) ==
    /\ e \in HttpEnds
    /\ httpOpen[e] > 0
    /\ e \notin httpEnded
    /\ sent[e] > 0
    /\ streams[e] = <<>>
    /\ httpEnded' = httpEnded \cup {e}
    /\ httpBuffer' = <<>>
    /\ LET messages == ByteSplit(httpBuffer)
           chunks == SelectSeq(messages, LAMBDA seg : seg # <<>>)
       IN  parsed' = parsed \o
              [i \in DOMAIN chunks |->
                  Dispatched(e, chunks[i],
                             IF Len(messages) > 1 THEN "request" ELSE "batch",
                             IF Complete(chunks[i])
                             THEN HttpReply(Decode(e, chunks[i]).items[1]).body
                             ELSE TextOf(ServerFormatError(Null, ParseErrorCode,
                                                           "Parse Error")))]
    /\ UNCHANGED <<coreVars, netVars, linkVars, probeVars, streams, sent, requestListeners, httpOpen,
                   httpConns, lastRead>>

\* the "connection" listener of HTTPServer.handleData(): the client
\* connection e opens and one more "request" listener is added to the server
HttpConnect(e) ==
    /\ e \in HttpEnds
    /\ httpConns[e] = "none"
    /\ httpConns' = [httpConns EXCEPT ![e] = "open"]
    /\ requestListeners' = requestListeners + 1
    /\ UNCHANGED <<coreVars, netVars, linkVars, probeVars, streams, sent, httpBuffer, httpOpen,
                   httpEnded, parsed, lastRead>>

\* the server emits "request" for the request that arrives on the open
\* connection e: each "request" listener registered at that moment runs
\* and gives the request a "data" and an "end" listener; with none
\* registered the request is handled by nobody
HttpRequest(e) ==
    /\ e \in HttpEnds
    /\ httpConns[e] = "open"
    /\ httpConns' = [httpConns EXCEPT ![e] = "request"]
    /\ httpOpen' = [httpOpen EXCEPT ![e] = requestListeners]
    /\ UNCHANGED <<coreVars, netVars, linkVars, probeVars, streams, sent, httpBuffer,
                   requestListeners, httpEnded, parsed, lastRead>>

\* the "close" and "end" listeners of the client connection e, idle or with
\* its request over: this.server.removeAllListeners("request")
HttpClose(e) ==
    /\ e \in HttpEnds
    /\ \/ httpConns[e] = "open"
       \/ httpConns[e] = "request" /\ (e \in httpEnded \/ httpOpen[e] = 0)
    /\ httpConns' = [httpConns EXCEPT ![e] = "closed"]
    /\ requestListeners' = 0
    /\ UNCHANGED <<coreVars, netVars, linkVars, probeVars, streams, sent, httpBuffer, httpOpen,
                   httpEnded, parsed, lastRead>>

\* ------------------------------------------------------------ client, connection
\* `&& this.remainingRetries` (TCPClient), `if (this.remainingRetries)` (WSClient)
ShouldRetryAlways(remaining) == TRUE
ShouldRetry(remaining) == remaining # 0

\* the client fields no connection event touches
callVars == <<transport, message_id, serving_message_id, pendingCalls, responseQueue,
              messageBuffer, calls, built, notes, batches, pendingBatches, timers,
              timeouts, crashed>>

\* a connection attempt is refused (ECONNREFUSED): the attempt of a
\* connect() call of the application, or the one a reconnect timer started.
\* TCPClient's "error" listener and WSClient's onclose consume a retry and
\* arm a timer while retries remain; otherwise the client stays closed.
ConnectRefused ==
    /\ ~crashed
    /\ fails < MaxFails
    /\ \/ link = "connecting"
       \/ link \in {"none", "closed"} /\ (transport = "tcp" => ~isConnected)
    /\ fails' = fails + 1
    /\ isConnected' = FALSE
    /\ ended' = IF link = "connecting" THEN ended ELSE [ended EXCEPT !.done = FALSE]
    /\ IF ShouldRetry(remainingRetries)
       THEN /\ remainingRetries' = remainingRetries - 1
            /\ link' = "retrying"
            /\ UNCHANGED closedBy
       ELSE /\ link' = "closed"
            /\ closedBy' = "refused"
            /\ UNCHANGED remainingRetries
    /\ UNCHANGED <<callVars, connected, serverVars, wireVars, sideVars, attempts,
                   sentClosed, lostPending>>

\* the reconnect timer fires: this.client.connect(this.server) of
\* TCPClient, this.connect() of WSClient
RetryTimer ==
    /\ ~crashed
    /\ link = "retrying"
    /\ link' = "connecting"
    /\ attempts' = attempts + 1
    /\ UNCHANGED <<callVars, connected, serverVars, wireVars, sideVars, isConnected,
                   remainingRetries, fails, closedBy, ended, sentClosed, lostPending>>

\* the attempt a timer started succeeds: the "connect" listener of
\* TCPClient, onopen of WSClient
Reconnected ==
    /\ ~crashed
    /\ link = "connecting"
    /\ link' = "open"
    /\ connected' = TRUE
    /\ isConnected' = TRUE
    /\ UNCHANGED <<callVars, serverVars, wireVars, sideVars, remainingRetries,
                   attempts, fails, closedBy, ended, sentClosed, lostPending>>

\* the calls that are pending: not settled and in this.pendingCalls
PendingNow ==
    {c \in DOMAIN calls :
        /\ calls[c].st = "pending"
        /\ calls[c].key[1] \in DOMAIN pendingCalls
        /\ pendingCalls[calls[c].key[1]] = c}

\* the server closes the open connection, with the "end" and "close" events
\* only (how = "end") or with an "error" event before them (how = "reset").
\* The bytes in flight are lost and the replies still to come go to a
\* socket that is gone. TCPClient: the listeners of Client.listen() remove
\* every listener and start nothing; this.connected is cleared by the
\* "error" listener only. WSClient: onclose, as for a refused attempt.
ServerClosed(how) ==
    /\ ~crashed
    /\ link = "open"
    /\ connected' = FALSE
    /\ c2s' = <<>>
    /\ s2c' = <<>>
    /\ jobs' = {}
    /\ lostPending' = lostPending \cup PendingNow
    /\ IF transport = "tcp"
       THEN /\ link' = "closed"
            /\ closedBy' = "remote"
            /\ isConnected' = (isConnected /\ how = "end")
            /\ UNCHANGED remainingRetries
       ELSE /\ UNCHANGED isConnected
            /\ IF ShouldRetry(remainingRetries)
               THEN /\ remainingRetries' = remainingRetries - 1
                    /\ link' = "retrying"
                    /\ UNCHANGED closedBy
               ELSE /\ link' = "closed"
                    /\ closedBy' = "remote"
                    /\ UNCHANGED remainingRetries
    /\ UNCHANGED <<callVars, srvBuffer, notifyCbs, cbCalls, handled, writes, invoked,
                   delivered, issued, sideVars, attempts, fails, ended, sentClosed>>

\* the application closes the client: TCPClient.end(cb) is
\* this.client.end(cb), which ends an open socket and leaves an armed
\* reconnect timer as it is; WSClient has Client.end(), whose
\* this.client.end is not a function of a WebSocket, so the call fails and
\* nothing is closed
End ==
    /\ ~crashed
    /\ link \in {"open", "retrying", "closed"}
    /\ ended' = [done |-> TRUE, attempts |-> attempts, remaining |-> remainingRetries]
    /\ IF transport = "tcp" /\ link = "open"
       THEN /\ link' = "closed"
            /\ closedBy' = "local"
            /\ connected' = FALSE
       ELSE UNCHANGED <<link, closedBy, connected>>
    /\ UNCHANGED <<callVars, serverVars, wireVars, sideVars, isConnected,
                   remainingRetries, attempts, fails, sentClosed, lostPending>>

\* ------------------------------------------------------------ TCP server, clients
\* the "connection" listener of TCPServer.handleData(): the socket of
\* client c is pushed on this.connectedClients
Connection(c) ==
    /\ ~srvDown
    /\ sockets[c] = "none"
    /\ sockets' = [sockets EXCEPT ![c] = "open"]
    /\ connectedClients' = Append(connectedClients, c)
    /\ UNCHANGED <<coreVars, frameVars, linkVars, probeVars, onDisconnect, received, errorEvents,
                   srvDown, lastNotify>>

\* TCPServer.clientDisconnected(cb): a "clientDisconnected" listener that
\* removes the client from this.connectedClients
ClientDisconnected ==
    /\ ~srvDown
    /\ onDisconnect = 0
    /\ onDisconnect' = 1
    /\ UNCHANGED <<coreVars, frameVars, linkVars, probeVars, connectedClients, sockets, received,
                   errorEvents, srvDown, lastNotify>>

\* the "close" and "end" listeners of the socket of client c: each emits
\* "clientDisconnected". A listener registered by clientDisconnected(cb)
\* splices the client out the first time and finds it gone the second;
\* with no such listener the list stays as it is.
SocketClosed(c) ==
    /\ ~srvDown
    /\ sockets[c] = "open"
    /\ sockets' = [sockets EXCEPT ![c] = "closed"]
    /\ connectedClients' = IF onDisconnect > 0
                            THEN SelectSeq(connectedClients, LAMBDA x : x # c)
                            ELSE connectedClients
    /\ UNCHANGED <<coreVars, frameVars, linkVars, probeVars, onDisconnect, received, errorEvents,
                   srvDown, lastNotify>>

RECURSIVE Reached(_, _)
\* connectedClients.forEach(client => client.write(...)) when a failing
\* write throws: the clients the loop gets to, up to the first that fails
Reached(clients, open) ==
    IF clients = <<>> THEN <<>>
    ELSE IF Head(clients) \in open THEN <<Head(clients)>> \o Reached(Tail(clients), open)
    ELSE <<Head(clients)>>

\* TCPServer.notify(method, params), where a write that fails fails as
\* `failure` says. An exception of write() ends the forEach and is emitted
\* as "error"; the listener of Server.handleError() sets this.listening to
\* false and throws it again, out of notify(). An "error" event of a socket
\* has no listener and is an uncaught exception.
ServerNotify(failure) ==
    /\ ~srvDown
    /\ lastNotify.n < MaxNotify
    /\ LET open == {c \in ClientIds : sockets[c] = "open"}
           failed == \E i \in DOMAIN connectedClients : connectedClients[i] \notin open
           tried == IF failure = "throw" THEN Range(Reached(connectedClients, open))
                    ELSE Range(connectedClients)
           got == tried \cap open
           threw == failed /\ failure = "throw"
       IN  /\ received' = [c \in ClientIds |->
                              IF c \in got THEN received[c] + 1 ELSE received[c]]
           /\ errorEvents' = IF threw THEN errorEvents + 1 ELSE errorEvents
           /\ listening' = IF threw THEN FALSE ELSE listening
           /\ srvDown' = (failed /\ failure = "event")
           /\ lastNotify' = [n |-> lastNotify.n + 1,
                             attached |-> Range(connectedClients) \cap open,
                             got |-> got, failed |-> failed,
                             reported |-> threw, threw |-> threw]
    /\ UNCHANGED <<clientVars, serverVars, wireVars, raw, emitterVars, httpVars,
                   frameVars, linkVars, probeVars, handle, listens, onListening, dataHandlers,
                   closes, lastConn, connectedClients, sockets, onDisconnect>>

\* ------------------------------------------------------------ listen, close
\* a promise of listen(): settled once
SettleListen(ps, i, st, why) ==
    IF ps[i].st = "pending" THEN [ps EXCEPT ![i] = [st |-> st, why |-> why]] ELSE ps

RECURSIVE SettleListens(_, _, _, _)
SettleListens(ps, is, st, why) ==
    IF is = {} THEN ps
    ELSE LET i == CHOOSE x \in is : TRUE
         IN  SettleListens(SettleListen(ps, i, st, why), is \ {i}, st, why)

\* a listen() that resolves when the server is listening already
ListenResolving ==
    /\ Len(listens) < MaxListens
    /\ LET p == Len(listens) + 1
           made == Append(listens, [st |-> "pending", why |-> ""])
           guarded == IF listening
                      THEN SettleListen(made, p, "resolved", "server already listening")
                      ELSE made
       IN  IF handle # "closed"
           THEN /\ listens' = SettleListen(guarded, p, "rejected", "ERR_SERVER_ALREADY_LISTEN")
                /\ UNCHANGED <<handle, onListening>>
           ELSE /\ listens' = guarded
                /\ handle' = "binding"
                /\ onListening' = onListening \cup {p}
    /\ UNCHANGED <<clientVars, serverVars, wireVars, raw, httpVars, extVars, emitterVars, listening,
                   dataHandlers, closes, lastConn>>

\* Server.listen(): the promise is rejected when this.listening, and the
\* executor goes on all the same: this.server.listen() throws on a server
\* that is bound or binding (which rejects a promise still pending),
\* otherwise the listeners of "listening", "error" and "close" are added
Listen ==
    /\ Len(listens) < MaxListens
    /\ LET p == Len(listens) + 1
           made == Append(listens, [st |-> "pending", why |-> ""])
           guarded == IF listening
                      THEN SettleListen(made, p, "rejected", "server already listening")
                      ELSE made
       IN  IF handle # "closed"
           THEN /\ listens' = SettleListen(guarded, p, "rejected", "ERR_SERVER_ALREADY_LISTEN")
                /\ UNCHANGED <<handle, onListening>>
           ELSE /\ listens' = guarded
                /\ handle' = "binding"
                /\ onListening' = onListening \cup {p}
    /\ UNCHANGED <<clientVars, serverVars, wireVars, raw, httpVars, extVars, emitterVars, listening,
                   dataHandlers, closes, lastConn>>

\* the "listening" event: every listener registered so far sets
\* this.listening, calls handleData() and handleError() and resolves its promise
Listening ==
    /\ handle = "binding"
    /\ handle' = "open"
    /\ listening' = TRUE
    /\ dataHandlers' = dataHandlers + Cardinality(onListening)
    /\ listens' = SettleListens(listens, onListening, "resolved", "")
    /\ UNCHANGED <<clientVars, serverVars, wireVars, raw, httpVars, extVars, emitterVars, onListening, closes,
                   lastConn>>

\* the "error" event of a server that cannot bind: every listener registered
\* so far clears this.listening and rejects its promise
ListenError ==
    /\ handle = "binding"
    /\ handle' = "closed"
    /\ listening' = FALSE
    /\ listens' = SettleListens(listens, onListening, "rejected", "EADDRINUSE")
    /\ UNCHANGED <<clientVars, serverVars, wireVars, raw, httpVars, extVars, emitterVars, onListening,
                   dataHandlers, closes, lastConn>>

\* Server.close()
Close ==
    /\ closes < MaxCloses
    /\ closes' = closes + 1
    /\ listening' = FALSE
    /\ handle' = "closed"
    /\ UNCHANGED <<clientVars, serverVars, wireVars, raw, httpVars, extVars, emitterVars, listens,
                   onListening, dataHandlers, lastConn>>

\* ------------------------------------------------------------ validation
\* the versions a server is constructed with: "2.0" (the default) and "1.0"
ServerVersions == {"2.0", "1.0"}
\* the jsonrpc member of a request: absent (""), "2.0" or "1.0"
JsonrpcMembers == {"", "2.0", "1.0"}
\* the params member of a request: absent, an array, an object, a string,
\* a number or null
ParamKinds == {"absent", "array", "object", "string", "number", "null"}
\* the id member of a request: absent or a number
ProbeIds == {Absent, 1}

\* the parsed messages handed to validateMessage
ProbeMessages ==
    {Obj(j, m, p, i, "", 0, "") :
        j \in JsonrpcMembers, m \in RawMethods, p \in ParamKinds, i \in ProbeIds}

\* handleValidation of one parsed message on a server constructed with
\* options.version = version; a message that passes is handed to getResult,
\* which calls the registered handler
Validate(version, message) ==
    /\ probe' = [op |-> "validate", version |-> version, message |-> message,
                 out |-> validateMessageOf(version, message),
                 called |-> validateMessageOf(version, message).tag = "request"]
    /\ UNCHANGED <<coreVars, frameVars, netVars, linkVars>>

NextValidate ==
    \E version \in ServerVersions, message \in ProbeMessages : Validate(version, message)

SpecValidate == Init /\ [][NextValidate]_vars

\* ------------------------------------------------------------ HTTP bodies
\* the JSON texts an HTTP request body is made of: requests with id 1, a
\* notification, a text that is not JSON, the empty batch and batches of two
BodyMethods == {"add", "zero", "nope", "typeerror", NonString}
BodyBatchMethods == {"add", "slow", "nope", "typeerror"}
BodyObjects ==
    {TextOf(RequestObj(m, "array", 1)) : m \in BodyMethods}
    \cup {TextOf(RequestObj("ping", "array", Absent)), Garbage}
BodyArrays ==
    {TextOfArray(<<>>)}
    \cup {TextOfArray(<<RequestObj(m, "array", 1), RequestObj(n, "array", 2)>>) :
               m \in BodyBatchMethods, n \in BodyBatchMethods}
\* the bodies: one text without a delimiter, one text followed by the
\* delimiter, two delimited texts
HttpBodies ==
    {<<f>> : f \in BodyObjects \cup BodyArrays}
    \cup {<<f, Delim>> : f \in BodyObjects}
    \cup {<<f, Delim, g, Delim>> : f \in BodyObjects, g \in BodyObjects}

\* what the then/catch after this.handleBatchRequest(messages) writes once
\* every handler has settled: the array of the responses, or
\* JSON.stringify(error) of the exception the batch promise was rejected with
BatchReply(items) ==
    LET slots == handleBatchRequest(items)
    IN  IF \E i \in DOMAIN slots : slots[i].st = "fatal" \/ (slots[i].rej /\ slots[i].st = "wait")
        THEN TextOf(EmptyObj)
        ELSE TextOfArray(Outs(slots))

\* an else branch that hands a body that is one JSON object to the handler
\* as a single message
SingleSegmentLenient(text) ==
    IF ~Parses(text)
    THEN [seg |-> text, how |-> "rejected",
          text |-> TextOf(ServerFormatError(Null, ParseErrorCode, "Parse Error"))]
    ELSE IF text.k = "obj"
    THEN [seg |-> text, how |-> "request", text |-> HttpReply(text.items[1]).body]
    ELSE IF text.items = <<>>
    THEN [seg |-> text, how |-> "batch",
          text |-> TextOfArray(<<ServerFormatError(Null, InvalidRequestCode,
                                                   "Invalid Request")>>)]
    ELSE [seg |-> text, how |-> "batch", text |-> BatchReply(text.items)]

\* the else branch of the "end" listener of HTTPServer.handleData(): the
\* body holds no delimiter. JSON.parse of a text that is not JSON throws,
\* for a value that is not an array a SyntaxError is thrown on purpose, and
\* the catch answers both with Parse Error; the empty array is answered with
\* [Invalid Request]; every other array goes to handleBatchRequest.
SingleSegment(text) ==
    IF ~Parses(text) \/ text.k # "arr"
    THEN [seg |-> text, how |-> "rejected",
          text |-> TextOf(ServerFormatError(Null, ParseErrorCode, "Parse Error"))]
    ELSE IF text.items = <<>>
    THEN [seg |-> text, how |-> "batch",
          text |-> TextOfArray(<<ServerFormatError(Null, InvalidRequestCode,
                                                   "Invalid Request")>>)]
    ELSE [seg |-> text, how |-> "batch", text |-> BatchReply(text.items)]

\* the "end" listener of HTTPServer.handleData() for a request whose whole
\* body is in the buffer: the replies it writes, one for each chunk
EndListener(body) ==
    LET messages == Split(body)
        chunks == SelectSeq(messages, LAMBDA m : m # EmptyText)
    IN  IF Len(messages) > 1
        THEN [i \in DOMAIN chunks |->
                 [seg |-> chunks[i], how |-> "request",
                  text |-> IF Parses(chunks[i])
                           THEN HttpReply(chunks[i].items[1]).body
                           ELSE TextOf(ServerFormatError(Null, ParseErrorCode,
                                                         "Parse Error"))]]
        ELSE <<SingleSegment(messages[1])>>

\* an HTTP request with this body has been received to its end
HttpRequestEnd(body) ==
    /\ probe' = [op |-> "end", body |-> body, segments |-> Len(Split(body)),
                 replies |-> EndListener(body)]
    /\ UNCHANGED <<coreVars, frameVars, netVars, linkVars>>

NextBody ==
    \E body \in HttpBodies : HttpRequestEnd(body)

SpecBody == Init /\ [][NextBody]_vars

\* a client connects to the listening server: every "connection" listener
\* that handleData() has registered runs; each emits "clientConnected",
\* pushes the socket on this.connectedClients and gives the socket a "data"
\* listener of its own, which answers every frame read from the socket
Incoming ==
    /\ handle = "open"
    /\ lastConn.n < MaxConns
    /\ lastConn' = [n |-> lastConn.n + 1, fired |-> dataHandlers]
    /\ UNCHANGED <<clientVars, serverVars, wireVars, raw, httpVars, extVars, emitterVars,
                   listening, handle, listens, onListening, dataHandlers, closes>>

\* ------------------------------------------------------------ specification
Next ==
    \/ Connect
    \/ \E m \in FrameMethods \cup NoteMethods, w \in BOOLEAN : Message(m, w)
    \/ \E m \in CallMethods : Send(m)
    \/ \E m \in NoteMethods : Notify(m)
    \/ \E r \in BatchArgs : Batch(r)
    \/ \E t \in DOMAIN timers : CallTimeout(t)
    \/ \E t \in DOMAIN timers : BatchTimeout(t)
    \/ \E n \in 1..MaxRead : ClientRead(n)
    \/ \E m \in CbMethods : OnNotify(m)
    \/ \E n \in 1..MaxRead : ServerRead(n)
    \/ \E job \in jobs : \E i \in DOMAIN job.slots : HandlerDone(job, i)
    \/ \E f \in RawFrames : RawWrite(f)
    \/ Listen
    \/ Listening
    \/ ListenError
    \/ Close
    \/ \E m \in EventNames, cb \in Callbacks : Subscribe(m, cb)
    \/ \E m \in EventNames, cb \in Callbacks : Unsubscribe(m, cb)
    \/ \E m \in EventNames : UnsubscribeAll(m)
    \/ \E m \in HttpMethods : HttpNotify(m)
    \/ \E i \in 1..MaxHttp : HttpServe(i)
    \/ \E i \in 1..MaxHttp : HttpResponse(i)
    \/ \E i \in 1..MaxHttp : HttpError(i)
    \/ \E e \in Ends : SocketWrite(e)
    \/ \E e \in TcpEnds : \E n \in 1..(3 * MaxSent) : TcpData(e, n)
    \/ \E n \in 1..(3 * MaxSent) : ClientData(n)
    \/ \E e \in HttpEnds : HttpOpen(e)
    \/ \E e \in HttpEnds : \E n \in 1..(3 * MaxSent) : HttpBody(e, n)
    \/ \E e \in HttpEnds : HttpEnd(e)
    \/ ConnectRefused
    \/ RetryTimer
    \/ Reconnected
    \/ \E how \in {"end", "reset"} : ServerClosed(how)
    \/ End
    \/ \E c \in ClientIds : Connection(c)
    \/ ClientDisconnected
    \/ \E c \in ClientIds : SocketClosed(c)
    \/ \E f \in WriteFailures : ServerNotify(f)
    \/ Incoming
    \/ \E version \in ServerVersions, message \in ProbeMessages : Validate(version, message)
    \/ \E body \in HttpBodies : HttpRequestEnd(body)
    \/ \E e \in HttpEnds : HttpConnect(e)
    \/ \E e \in HttpEnds : HttpRequest(e)
    \/ \E e \in HttpEnds : HttpClose(e)

\* every operation of the client and of the server
Spec == Init /\ [][Next]_vars

\* single calls: send(), its timer, and the replies of the server
NextCalls ==
    \/ Connect
    \/ \E m \in FrameMethods \cup NoteMethods, w \in BOOLEAN : Message(m, w)
    \/ \E m \in CallMethods : Send(m)
    \/ \E t \in DOMAIN timers : CallTimeout(t)
    \/ \E n \in 1..MaxRead : ClientRead(n)
    \/ \E n \in 1..MaxRead : ServerRead(n)
    \/ \E job \in jobs : \E i \in DOMAIN job.slots : HandlerDone(job, i)

SpecCalls == Init /\ [][NextCalls]_vars

\* batches: message(), batch(), its timer, and the replies of the server
NextBatch ==
    \/ Connect
    \/ \E m \in FrameMethods \cup NoteMethods, w \in BOOLEAN : Message(m, w)
    \/ \E r \in BatchArgs : Batch(r)
    \/ \E t \in DOMAIN timers : BatchTimeout(t)
    \/ \E n \in 1..MaxRead : ClientRead(n)
    \/ \E n \in 1..MaxRead : ServerRead(n)

SpecBatch == Init /\ [][NextBatch]_vars

\* the server's side of notifications, sent alone and in batches
NextServer ==
    \/ Connect
    \/ \E m \in FrameMethods \cup NoteMethods, w \in BOOLEAN : Message(m, w)
    \/ \E m \in NoteMethods : Notify(m)
    \/ \E r \in BatchArgs : Batch(r)
    \/ \E m \in CbMethods : OnNotify(m)
    \/ \E n \in 1..MaxRead : ServerRead(n)

SpecServer == Init /\ [][NextServer]_vars

\* the server answering the frames of a plain socket
NextFrames ==
    \/ \E f \in RawFrames : RawWrite(f)
    \/ \E n \in 1..MaxRead : ServerRead(n)
    \/ \E job \in jobs : \E i \in DOMAIN job.slots : HandlerDone(job, i)

SpecFrames == Init /\ [][NextFrames]_vars

\* the life cycle of the server
NextListen ==
    \/ Listen
    \/ Listening
    \/ ListenError
    \/ Close
    \/ Incoming

SpecListen == Init /\ [][NextListen]_vars

\* the client's event names: batch() and the three subscription operations
NextSubs ==
    \/ Connect
    \/ \E m \in FrameMethods \cup NoteMethods, w \in BOOLEAN : Message(m, w)
    \/ \E r \in BatchArgs : Batch(r)
    \/ \E m \in EventNames, cb \in Callbacks : Subscribe(m, cb)
    \/ \E m \in EventNames, cb \in Callbacks : Unsubscribe(m, cb)
    \/ \E m \in EventNames : UnsubscribeAll(m)

SpecSubs == Init /\ [][NextSubs]_vars

\* subscriptions of the application while calls are sent and answered
NextEvents ==
    \/ Connect
    \/ \E m \in CallMethods : Send(m)
    \/ \E n \in 1..MaxRead : ServerRead(n)
    \/ \E job \in jobs : \E i \in DOMAIN job.slots : HandlerDone(job, i)
    \/ \E n \in 1..MaxRead : ClientRead(n)
    \/ \E m \in EventNames, cb \in Callbacks : Subscribe(m, cb)
    \/ \E m \in EventNames, cb \in Callbacks : Unsubscribe(m, cb)
    \/ \E m \in EventNames : UnsubscribeAll(m)

SpecEvents == Init /\ [][NextEvents]_vars

\* notifications of the HTTP client and the HTTP server
NextHttp ==
    \/ \E m \in HttpMethods : HttpNotify(m)
    \/ \E i \in 1..MaxHttp : HttpServe(i)
    \/ \E i \in 1..MaxHttp : HttpResponse(i)
    \/ \E i \in 1..MaxHttp : HttpError(i)

SpecHttp == Init /\ [][NextHttp]_vars

\* byte streams into the TCP server, the HTTP server and the client
NextStream ==
    \/ \E e \in Ends : SocketWrite(e)
    \/ \E e \in TcpEnds : \E n \in 1..(3 * MaxSent) : TcpData(e, n)
    \/ \E n \in 1..(3 * MaxSent) : ClientData(n)
    \/ \E e \in HttpEnds : HttpOpen(e)
    \/ \E e \in HttpEnds : \E n \in 1..(3 * MaxSent) : HttpBody(e, n)
    \/ \E e \in HttpEnds : HttpEnd(e)

SpecStream == Init /\ [][NextStream]_vars

\* the connection of the client: attempts, retries, loss and local close,
\* with send(), its timer and the replies of the server
NextLink ==
    \/ Connect
    \/ ConnectRefused
    \/ RetryTimer
    \/ Reconnected
    \/ \E how \in {"end", "reset"} : ServerClosed(how)
    \/ End
    \/ \E m \in CallMethods : Send(m)
    \/ \E t \in DOMAIN timers : CallTimeout(t)
    \/ \E n \in 1..MaxRead : ClientRead(n)
    \/ \E n \in 1..MaxRead : ServerRead(n)
    \/ \E job \in jobs : \E i \in DOMAIN job.slots : HandlerDone(job, i)

SpecLink == Init /\ [][NextLink]_vars

\* the TCP server, its clients and notify()
NextNotify ==
    \/ \E c \in ClientIds : Connection(c)
    \/ ClientDisconnected
    \/ \E c \in ClientIds : SocketClosed(c)
    \/ \E f \in WriteFailures : ServerNotify(f)

SpecNotify == Init /\ [][NextNotify]_vars

\* ------------------------------------------------------------ properties
IdsOf(text) == Range(TruthyIds(text.items))
HasError(text) == \E i \in DOMAIN text.items : text.items[i].code # 0
HasEntry(c) ==
    /\ calls[c].key[1] \in DOMAIN pendingCalls
    /\ pendingCalls[calls[c].key[1]] = c

\* C1: the ids message() and send() put in their frames are 1, 2, 3, ... in
\* call order, the counter is one more than the number of ids issued (so a
\* notification does not advance it), and a notification frame has no id
C1_IdsSequential ==
    /\ \A i \in DOMAIN issued : issued[i] = i
    /\ message_id = Len(issued) + 1
    /\ \A f \in built : (f.items[1].method \in NoteMethods) = (f.items[1].id = Absent)

C1_Witness ==
    /\ Len(issued) = MaxId
    /\ notes > 0
    /\ \E c \in DOMAIN calls : calls[c].by # "write"
    /\ \E f \in built : f.items[1].id # Absent

\* C2: a call settled by a message from the server is settled with the message
\* whose id is the id the call was given, and a call resolved by a response is
\* resolved with the response the server wrote for the request of that id
C2_CorrelatedById ==
    \A c \in DOMAIN calls :
        /\ calls[c].by \in {"response", "error"} =>
              calls[c].val.items[1].id = calls[c].key[1]
        /\ calls[c].by = "response" =>
              /\ calls[c].st = "resolved"
              /\ \E w \in writes : /\ w.out = calls[c].val
                                   /\ w.req.items[1].id = calls[c].key[1]

\* two calls were pending together and the later one was answered first
C2_Witness ==
    /\ Len(calls) >= 2
    /\ calls[1].by = "response"
    /\ calls[2].by = "response"
    /\ calls[1].key[1] < calls[2].key[1]
    /\ serving_message_id = calls[1].key[1]

\* C3: a call that is settled by a response, by an error response or by its
\* timer has no entry in pendingCalls any more, and a pending call has its entry
C3_EntryUntilSettled ==
    \A c \in DOMAIN calls :
        /\ calls[c].st = "pending" => HasEntry(c)
        /\ calls[c].by \in {"response", "error", "timeout"} => ~HasEntry(c)

\* C4: a call that its timer settles is rejected with the object
\* {jsonrpc: version, error: {code: -32000, message: "Request Timeout"}, id: null}
C4_TimeoutObject ==
    \A c \in DOMAIN calls :
        calls[c].by = "timeout" =>
            /\ calls[c].st = "rejected"
            /\ ~calls[c].str
            /\ calls[c].val = TextOf(TimeoutError)

\* the next message of the stream answers a call that has timed out already
LateMessage ==
    /\ s2c # <<>>
    /\ Head(s2c).k = "obj"
    /\ \E c \in DOMAIN calls :
          /\ calls[c].by = "timeout"
          /\ calls[c].key[1] = Head(s2c).items[1].id
          /\ ~HasEntry(c)

\* C5: reading a response or an error response for a call that has timed out
\* settles no call and raises no exception
C5_LateMessageDropped ==
    [][(LateMessage /\ Len(s2c') < Len(s2c)) => (calls' = calls /\ ~crashed')]_vars

\* C6: a batch whose reply, complete and free of errors, reaches the client
\* while it is pending is resolved with a response array that carries the ids
\* of its requests
C6_BatchResolves ==
    \A b \in delivered :
        /\ batches[b].st = "resolved"
        /\ IdsOf(batches[b].val) = Range(batches[b].key)

\* C7: a batch is settled by a response only when the ids the response
\* carries are the ids of the batch
C7_ExactIdSet ==
    \A b \in DOMAIN batches :
        batches[b].by = "response" => IdsOf(batches[b].val) = Range(batches[b].key)

\* C8: a batch settled by a response is settled with the whole response array,
\* rejected when an element carries an error and resolved otherwise, and its
\* pendingBatches entry is gone
C8_BatchSettlement ==
    \A b \in DOMAIN batches :
        batches[b].by = "response" =>
            /\ batches[b].val.k = "arr"
            /\ ~batches[b].str
            /\ batches[b].st = (IF HasError(batches[b].val) THEN "rejected" ELSE "resolved")
            /\ ~(batches[b].key \in DOMAIN pendingBatches
                   /\ pendingBatches[batches[b].key] = b)

C8_Witness ==
    \E b \in DOMAIN batches :
        /\ batches[b].by = "response"
        /\ batches[b].st = "rejected"
        /\ Len(batches[b].val.items) = 2
        /\ ~HasError([k |-> "arr", items |-> <<batches[b].val.items[1]>>])

\* the notifications a frame carries, alone or as elements of a batch
NotificationsOf(frame) ==
    IF ~Parses(frame) THEN {}
    ELSE {frame.items[i] : i \in {j \in DOMAIN frame.items :
                                    validateMessage(frame.items[j]).tag = "notification"}}
\* the elements of a frame that are to be answered
AnswerableIn(frame) ==
    IF ~Parses(frame) \/ frame.items = <<>> THEN 1
    ELSE Cardinality({i \in DOMAIN frame.items :
                         validateMessage(frame.items[i]).tag # "notification"})

\* C9: what the server writes for a frame has no entry for a notification:
\* nothing is written for a frame that carries only notifications
C9_NoReplyToNotification ==
    \A w \in writes : Len(w.out.items) <= AnswerableIn(w.req)

\* C10: for every notification the server has received, alone or in a batch,
\* the callbacks registered for its method have been invoked with it, and no
\* callback registered for another method has
C10_NotifyCallbacks ==
    \A h \in handled : \A n \in NotificationsOf(h.frame) : \A m \in h.cbs :
        ([cb |-> m, msg |-> n] \in cbCalls) = (m = n.method)

\* how many elements of s are x
Count(s, x) == Cardinality({i \in DOMAIN s : s[i] = x})
\* a batch element that is to be answered with an error entry
Fails(request) ==
    \/ validateMessage(request).tag = "error"
    \/ /\ validateMessage(request).tag = "request"
       /\ methods[request.method] \in {"undefined", "typeerror", "throws", "rejects"}

\* C11: the reply to a batch with elements that carry an id is an array with
\* exactly one entry for each of those elements and no other entry
C11_BatchComplete ==
    \A w \in writes :
        (w.req.k = "arr" /\ TruthyIds(w.req.items) # <<>>) =>
            /\ w.out.k = "arr"
            /\ Len(w.out.items) = Len(TruthyIds(w.req.items))
            /\ \A x \in Ids : Count(TruthyIds(w.out.items), x)
                                = Count(TruthyIds(w.req.items), x)

\* C12: the reply to a batch lists one entry per element in the order of the
\* request, an error entry exactly where the element fails
C12_BatchOrder ==
    \A w \in writes :
        (w.req.k = "arr" /\ w.req.items # <<>>) =>
            /\ w.out.k = "arr"
            /\ Len(w.out.items) = Len(w.req.items)
            /\ \A i \in DOMAIN w.req.items :
                  /\ w.out.items[i].id = w.req.items[i].id
                  /\ (w.out.items[i].code # 0) = Fails(w.req.items[i])

\* the chunk the server's data listener dispatches in this step: the first
\* one that is not empty among those of its buffer and the tokens it reads
ChunkRead ==
    LET messages == Split(srvBuffer \o SubSeq(c2s, 1, Len(c2s) - Len(c2s')))
        at == FirstChunk(messages, 1)
    IN  IF Len(c2s') < Len(c2s) /\ at # 0 THEN messages[at] ELSE EmptyText
\* the server writes exactly this text and the delimiter in this step
Answers(text) == s2c' = s2c \o <<text, Delim>>
\* a single request object that is structurally valid and carries an id
ValidRequest(chunk) ==
    /\ chunk.k = "obj"
    /\ chunk.items[1].method \notin {"", NonString}
    /\ ~Falsy(chunk.items[1].id)
    /\ chunk.items[1].params \in {"array", "object"}

MethodNotFound(id) ==
    TextOf(ErrorObj("2.0", MethodNotFoundCode, "Method not found", id))

C16_HandlerFailure ==
    \A w \in writes :
        (ValidRequest(w.req) /\ w.req.items[1].method \in DOMAIN methods) =>
            LET kind == methods[w.req.items[1].method]
                out == w.out.items[1]
            IN  /\ kind = "typeerror" =>
                      out = ErrorObj("2.0", InvalidParamsCode, "Invalid Parameters",
                                     w.req.items[1].id)
                /\ kind \in {"throws", "rejects"} =>
                      /\ out.code = InternalErrorCode
                      /\ out.id = w.req.items[1].id
                      /\ out.emsg \in {FailureText, Quoted(FailureText)}

\* two replies to the same request, one from a handler that returns a value
\* and one from a handler that returns a promise fulfilled with that value
SameValuePair(w1, w2) ==
    /\ ValidRequest(w1.req) /\ ValidRequest(w2.req)
    /\ w1.req.items[1].method \in DOMAIN methods
    /\ w2.req.items[1].method \in DOMAIN methods
    /\ methods[w1.req.items[1].method] = "value"
    /\ methods[w2.req.items[1].method] = "deferred"
    /\ Returned(w1.req.items[1].method) = Returned(w2.req.items[1].method)
    /\ w1.req.items[1].id = w2.req.items[1].id
    /\ w1.req.items[1].jsonrpc = w2.req.items[1].jsonrpc
    /\ w1.req.items[1].params = w2.req.items[1].params

\* C17: a handler that returns v and a handler that returns a promise
\* fulfilled with v give identical responses to the same request
C17_SameResponse ==
    \A w1 \in writes, w2 \in writes : SameValuePair(w1, w2) => w1.out = w2.out

\* C17 as amended: the two responses have the same id and jsonrpc, the first
\* has the result v, the second the one-element array [v]
C17_DeferredWrapped ==
    \A w1 \in writes, w2 \in writes :
        SameValuePair(w1, w2) =>
            /\ w1.out.items[1].code = 0 /\ w2.out.items[1].code = 0
            /\ w1.out.items[1].id = w2.out.items[1].id
            /\ w1.out.items[1].jsonrpc = w2.out.items[1].jsonrpc
            /\ w1.out.items[1].result = Returned(w1.req.items[1].method)
            /\ w2.out.items[1].result = "[" \o w1.out.items[1].result \o "]"

C17_Witness ==
    \E w1 \in writes, w2 \in writes :
        /\ SameValuePair(w1, w2)
        /\ w1.out.items[1].result = "done"
        /\ w2.out.items[1].result = "[done]"

\* C18: a listen() made while the server is listening is rejected with an
\* error, and the server is listening as before
C18_ListenTwice ==
    [][(listening /\ Len(listens') = Len(listens) + 1) =>
          /\ listens'[Len(listens')].st = "rejected"
          /\ listens'[Len(listens')].why # ""
          /\ listening'
          /\ handle' = handle
          /\ dataHandlers' = dataHandlers
          /\ onListening' = onListening]_vars

C18_Witness ==
    /\ listening
    /\ handle = "open"
    /\ \E i \in DOMAIN listens :
          listens[i] = [st |-> "rejected", why |-> "server already listening"]

\* C19: subscribe, unsubscribe and unsubscribeAll called with the event name
\* "batchResponse" throw and leave every listener of the client as it was
C19_ReservedName ==
    [][(subs' = subs + 1 /\ lastSub'.method = "batchResponse") =>
          /\ lastSub'.threw
          /\ listeners' = listeners]_vars

C19_Witness ==
    /\ lastSub.method = "batchResponse"
    /\ lastSub.op = "unsubscribeAll"
    /\ lastSub.threw
    /\ listeners["batchResponse"] # <<>>
    /\ listeners["notify"] # <<>>

\* C20: the HTTP server answers a notify() with status 204 and an empty
\* body, and the promise of notify() is resolved by a reply exactly when the
\* status of the reply is 204 and rejected by a reply of any other status
C20_HttpNotify ==
    \A i \in DOMAIN httpCalls :
        /\ httpCalls[i].served =>
              httpCalls[i].status = 204 /\ httpCalls[i].body = EmptyText
        /\ httpCalls[i].by = "response" =>
              (httpCalls[i].st = "resolved") = (httpCalls[i].status = 204)

\* the chunks dispatched at end e so far, in order
SegmentsAt(e) ==
    LET mine == SelectSeq(parsed, LAMBDA d : d.at = e)
    IN  [i \in DOMAIN mine |-> mine[i].seg]

\* the messages written to end e so far, in order
FramesTo(e) == [m \in 1..sent[e] |-> Whole(e, m)]

IsPrefix(p, q) == Len(p) <= Len(q) /\ p = SubSeq(q, 1, Len(p))

\* C23: however the bytes of a well-formed stream are cut into reads, the
\* chunks a receiver (TCP server socket, client) dispatches are the messages
\* of the stream in order: always a prefix of them, and all of them once
\* every byte has been read
C23_AnyPartition ==
    \A e \in TcpEnds \cup {"cli"} :
        /\ IsPrefix(SegmentsAt(e), FramesTo(e))
        /\ streams[e] = <<>> => SegmentsAt(e) = FramesTo(e)

\* the bytes are those of two or more whole messages, each with its delimiter
SeveralMessages(data) ==
    LET messages == ByteSplit(data)
    IN  /\ Len(messages) > 2
        /\ messages[Len(messages)] = <<>>
        /\ \A i \in 1..(Len(messages) - 1) : Complete(messages[i])

\* C25: a read that holds several whole messages dispatches every one of
\* them, in order
C25_EveryMessage ==
    SeveralMessages(lastRead.data) =>
        [i \in DOMAIN lastRead.out |-> lastRead.out[i].seg]
            = SubSeq(ByteSplit(lastRead.data), 1, Len(ByteSplit(lastRead.data)) - 1)

\* C26: a chunk a server dispatches for one client holds only bytes that
\* client sent, and its reply is written to that client
C26_PerConnection ==
    \A i \in DOMAIN parsed :
        /\ parsed[i].to = parsed[i].at
        /\ \A j \in DOMAIN parsed[i].seg : parsed[i].seg[j].items[1] = parsed[i].at

\* C21: notify() writes the frame to every attached client; when a write
\* fails, an "error" event reports it, the other attached clients still
\* get the frame, and the server keeps running (no exception leaves
\* notify() or the process)
C21_Broadcast ==
    lastNotify.n > 0 =>
        /\ lastNotify.attached \subseteq lastNotify.got
        /\ lastNotify.failed =>
              lastNotify.reported /\ ~lastNotify.threw /\ ~srvDown

\* C22: the client never starts more than Retries reconnection attempts;
\* remainingRetries stays within 0..Retries and is Retries less the attempts
\* started or scheduled; with none left a refused attempt leaves the client
\* closed with no timer armed
C22_BoundedRetries ==
    /\ attempts <= Retries
    /\ remainingRetries \in 0..Retries
    /\ remainingRetries = Retries - attempts - (IF link = "retrying" THEN 1 ELSE 0)
    /\ closedBy = "refused" /\ link = "closed" => remainingRetries = 0

\* every retry was used, the last attempt was refused and the client is closed
C22_Witness ==
    /\ attempts = Retries
    /\ remainingRetries = 0
    /\ link = "closed"
    /\ closedBy = "refused"
    /\ fails > Retries

\* C24: a send() made with no open connection is rejected at once by the
\* failure of the write
C24_RejectedAtOnce ==
    \A c \in sentClosed : calls[c].st = "rejected" /\ calls[c].by = "write"

\* C27: once the application has closed the client, the client is closed,
\* no reconnection attempt is started and no retry is consumed
C27_LocalClose ==
    ended.done =>
        /\ link = "closed"
        /\ attempts = ended.attempts
        /\ remainingRetries = ended.remaining

\* C28: a connection closed by the server while retries remain is not left
\* closed: the client is retrying, connecting or open again
C28_RetryAfterRemoteClose ==
    link = "closed" /\ closedBy = "remote" => remainingRetries = 0

C30_HandlersKept ==
    \A c \in DOMAIN calls :
        calls[c].key[1] \in DOMAIN responseQueue => calls[c].st # "pending"

\* ------------------------------------------------------------ C31
\* a batch frame of which every element is a notification
AllNotifications(frame) ==
    /\ frame.k = "arr"
    /\ frame.items # <<>>
    /\ \A i \in DOMAIN frame.items :
           validateMessage(frame.items[i]).tag = "notification"

\* C31: the TCP server writes nothing at all to the client for a batch whose
\* elements are all notifications
C31_SilentBatch ==
    \A w \in writes : ~AllNotifications(w.req)

\* ------------------------------------------------------------ C32, C33
\* the last message validated was a request with an id and a string method
ProbedRequest ==
    /\ probe.op = "validate"
    /\ ~Falsy(probe.message.id)
    /\ probe.message.method \notin {"", NonString}

\* the outcome of the last validation is the error response with this code
ProbeRejected(code) ==
    /\ probe.out.tag = "error"
    /\ probe.out.msg.code = code

\* C32: a request with an id whose jsonrpc member differs from the version
\* the server is configured with is answered with Invalid Request, and one
\* whose jsonrpc member equals the configured version is not
C32_VersionChecked ==
    (ProbedRequest /\ probe.message.jsonrpc # "")
        => (ProbeRejected(InvalidRequestCode)
                <=> probe.message.jsonrpc # probe.version)

\* C33: a request for a registered method is answered with Invalid Parameters
\* exactly when its params member is present and is neither an array nor an
\* object; without a params member its handler is invoked
C33_ParamsChecked ==
    (ProbedRequest /\ probe.message.method \in DOMAIN methods
                   /\ ~ProbeRejected(InvalidRequestCode))
        => /\ ProbeRejected(InvalidParamsCode)
                <=> probe.message.params \notin {"absent", "array", "object"}
           /\ probe.message.params = "absent" => probe.called

\* ------------------------------------------------------------ C39
\* the value a handler that returns normally returns: a truthy value, the
\* falsy value 0, or undefined
ReturnedBy(method) ==
    CASE methods[method] = "falsy" -> "0"
      [] methods[method] = "undefined" -> "undefined"
      [] OTHER -> Returned(method)

\* a frame that is one valid request to a handler that returns normally
ReturnsNormally(frame) ==
    /\ frame.k = "obj"
    /\ validateMessage(frame.items[1]).tag = "request"
    /\ methods[frame.items[1].method] \in {"value", "falsy", "undefined"}

\* C39: the reply to a valid request whose handler returns normally is the
\* success response whose result is the returned value, also when that value
\* is falsy or undefined, and never an error response
C39_ResultReturned ==
    \A w \in writes :
        ReturnsNormally(w.req) =>
            w.out = TextOf(formatResponse(w.req.items[1].jsonrpc, w.req.items[1].id,
                                          ReturnedBy(w.req.items[1].method)))

\* ------------------------------------------------------------ C34
\* the last HTTP request body held one segment, this text, and no delimiter
OneSegment(kind) ==
    /\ probe.op = "end"
    /\ probe.segments = 1
    /\ probe.body[1].k = kind

ParseErrorText == TextOf(ServerFormatError(Null, ParseErrorCode, "Parse Error"))

SharedIds(a, b) == {a[i] : i \in DOMAIN a} \cap {b[i] : i \in DOMAIN b}

\* C35: two batches that are pending at the same time have distinct keys and
\* no id in common, every pending batch still has its entry in pendingBatches
\* and its timer in timeouts: no batch() call has overwritten them
C35_BatchesApart ==
    \A i \in DOMAIN batches : \A j \in DOMAIN batches :
        (i # j /\ batches[i].st = "pending" /\ batches[j].st = "pending")
            => /\ batches[i].key # batches[j].key
               /\ SharedIds(batches[i].key, batches[j].key) = {}
               /\ batches[i].key \in DOMAIN pendingBatches
               /\ pendingBatches[batches[i].key] \in {i, j}

\* ------------------------------------------------------------ C36
\* the pending batches that the step settles
SettledByStep ==
    {i \in DOMAIN batches : batches[i].st = "pending" /\ batches'[i].st # "pending"}

\* C36: no step, and so no batch response that arrives, settles more than
\* one pending batch
C36_OneBatchPerResponse ==
    [][Cardinality(SettledByStep) <= 1]_vars

\* ------------------------------------------------------------ C38
\* the clients whose socket is open
Attached == {c \in ClientIds : sockets[c] = "open"}

\* C38: connectedClients holds exactly the clients that are attached, each
\* of them once, and no notify() has tried to write to a client that had
\* disconnected
C38_ExactlyAttached ==
    /\ Range(connectedClients) = Attached
    /\ Len(connectedClients) = Cardinality(Attached)
    /\ ~lastNotify.failed

\* ------------------------------------------------------------ C37
\* HTTP client connections that open and close, and the requests on them
NextConns ==
    \/ \E e \in HttpEnds : HttpConnect(e)
    \/ \E e \in HttpEnds : HttpRequest(e)
    \/ \E e \in HttpEnds : HttpClose(e)
    \/ \E e \in HttpEnds : SocketWrite(e)
    \/ \E e \in HttpEnds : \E n \in 1..(3 * MaxSent) : HttpBody(e, n)
    \/ \E e \in HttpEnds : HttpEnd(e)

SpecConns == Init /\ [][NextConns]_vars

\* C37: every HTTP request that has arrived is handled by exactly one
\* "request" listener, however many connections were opened before it and
\* whichever of them have closed
C37_HandledOnce ==
    \A e \in HttpEnds :
        (httpConns[e] = "request" \/ (httpConns[e] = "closed" /\ e \in httpEnded))
            => httpOpen[e] = 1

\* ------------------------------------------------------------ C40
\* C40: whatever listen() and close() calls came before, one "connection"
\* listener runs for a connection the server accepts: "clientConnected" is
\* fired once and every frame of the connection is read by one "data"
\* listener and answered once
C40_HandledOnce ==
    lastConn.n > 0 => lastConn.fired = 1

====
